---- MODULE Spec2Model ----
(***************************************************************************)
(* Model of src/worker.js in six components, each with its own             *)
(* specification over the same variables: the Gemini continuation engine   *)
(* (GeminiHandler.handleStreamingPost and                                  *)
(* GeminiHandler.processStreamAndRetryInternally; Spec, SpecAnyConfig,     *)
(* FairSpec), the gateway (handleRequest with SocketProxy and FetchProxy;  *)
(* SpecGateway), the WebSocket relay (SocketProxy.connectWebSocket and     *)
(* BaseProxy.relayWebSocketFrames with SocketFramesReader; SpecRelay), the *)
(* exchange of the raw-socket transport (SocketProxy.connectHttp,          *)
(* BaseProxy.parseResponse and readChunks; SpecParse, FairSpecParse), the  *)
(* continuation body (buildRetryRequestBody, detectLanguage and            *)
(* ConfigManager.updateConfigFromEnv; SpecRetryBody) and the line iterator *)
(* (sseLineIterator; SpecSse).  A specification holds the other components *)
(* idle.                                                                   *)
(*                                                                         *)
(* One session is one downstream request.  The engine is a single          *)
(* cooperative task: every action below is the code that runs between two  *)
(* awaits (reader.read, writer.write, the timers, proxy.connectHttp).  The  *)
(* environment resolves each await (a line, end of stream, a read error, a  *)
(* response status) and may disconnect the downstream client, which errors *)
(* the writable side of the TransformStream and rejects the pending write. *)
(***************************************************************************)
EXTENDS Integers, Sequences, FiniteSets, TLC

VARIABLES
    geminiConfig,                   \* this.config of the GeminiHandler
    eol,                            \* the line terminator the upstream of this session uses
    initialResponse,                \* what proxy.connectHttp resolved with for the initial request
    pc,                             \* the await the engine is suspended at
    response,                       \* the Response handleStreamingPost returned (NoResponse: none yet)
    writerState,                    \* "none" | "open" | "errored" | "closed"
    writerLocked,                   \* writable.getWriter() was called and never released
    closeCalls,                     \* number of writer.close() calls made
    downstream,                     \* chunks the downstream writer accepted, in order
    pendingChunk,                   \* argument of the writer.write() being awaited
    currentLine,                    \* `line` of the for-await loop, while an iteration runs
    accumulatedText,
    consecutiveRetryCount,
    networkRetryCount,
    interruptionReason,
    hasReceivedFinalAnswerContent,
    hasReceivedToolCalls,
    finishReason,                   \* candidate.finishReason last interpreted in this attempt
    readerCancelled,                \* cleanup(currentReader) ran on the reader currentReader holds
    exitPath,                       \* which `return writer.close()` ended the session
    attempts,                       \* history: passes of the outer loop body started
    dispatches,                     \* history: proxy.connectHttp calls made for retries
    arrived,                        \* history: lines yielded by sseLineIterator before any write was rejected
    writtenIn,                      \* history: the pass during which each chunk of downstream was accepted
    writeFailed,                    \* history: a writer.write() rejected
    linesRead,                      \* lines yielded so far (bounded by MaxLines)
    \* SpectreProxy.handleRequest and the transports
    req,                            \* the request: its path segments and what the router reads of it
    config,                         \* ConfigManager.updateConfigFromEnv(env)
    gwPc,                           \* the await handleRequest is suspended at
    route,                          \* the branch of the router that took the request
    gwResponse,                     \* the Response handleRequest returned (NoResponse: none yet)
    connections,                    \* history: upstream connections opened, in order
    socketError,                    \* message of the error caught by SocketProxy.connectHttp
    fetchError,                     \* message of the error caught by FetchProxy.connectHttp
    \* BaseProxy.relayWebSocketFrames and SocketFramesReader
    relayPc,                        \* the await the upstream pump is suspended at
    received,                       \* history: frames the upstream sent, in order
    upstreamWritten,                \* frames the upstream writer accepted, in order
    delivered,                      \* payloads passed to ws.send, in order
    messages,                       \* history: payloads of the downstream message events
    timeoutId,                      \* the idle timer is pending
    released,                       \* per resource, the close()/cancel() calls made by cleanup
    wsEvents,                       \* the close and error events of ws dispatched so far
    expired,                        \* history: the idle timer fired
    fragmentedPayload,
    fragmentedOpcode,
    quiet,                          \* history: no frame was received or sent since the timer was set
    handshakeRest,                  \* history: frames that came in the read of the 101 response
    readerBuffer,                   \* SocketFramesReader.buffer between two frames
    \* BaseProxy.parseResponse
    wire,                           \* bytes the upstream has still to send
    wireBody,                       \* history: the bytes the upstream sends after the preamble
    chunks,                         \* history: the payloads a chunked wireBody encodes
    framing,                        \* what the header section says of the body
    buff,                           \* `buff` of parseResponse
    parsePc,                        \* the await parseResponse or its stream is suspended at
    responseBody,                   \* bytes enqueued on the stream of the Response, in order
    bodyReceived,                   \* `received` of the stream's start()
    socketReleased,                 \* cleanupResources(socket) calls made
    bodyCancelled,                  \* the caller cancelled the stream of the Response
    size,                           \* `size` of readChunks while it fills a chunk
    request,                        \* what connectHttp reads of the request it sends
    requestWritten,                 \* the Content-Length and the body written to the socket
    \* GeminiHandler.buildRetryRequestBody
    originalRequestBody,
    retryText,                      \* the accumulated text of the last call
    retryBody,                      \* what the last call returned
    retryBuilds,                    \* history: the calls made for the request
    retry_prompts,                  \* GEMINI_CONFIG.retry_prompts, a global of the module
    env,                            \* the environment of the request being handled
    \* GeminiHandler.sseLineIterator
    sseWire,                        \* bytes the body has still to deliver
    sseStream,                      \* history: all the bytes of the body
    buffer,                         \* `buffer` of sseLineIterator
    yielded,                        \* the lines yielded so far, in order
    ssePc                           \* the await sseLineIterator is suspended at

vars == << geminiConfig, eol, initialResponse, pc, response, writerState, writerLocked, closeCalls, downstream,
           pendingChunk, currentLine, accumulatedText, consecutiveRetryCount,
           networkRetryCount, interruptionReason, hasReceivedFinalAnswerContent,
           hasReceivedToolCalls, finishReason, readerCancelled,
           exitPath, attempts, dispatches, arrived, writtenIn,
           writeFailed, linesRead,
           req, config, gwPc, route, gwResponse, connections, socketError,
           fetchError,
           relayPc, received, upstreamWritten, delivered, messages, timeoutId,
           released, wsEvents, expired, fragmentedPayload, fragmentedOpcode,
           quiet, handshakeRest, readerBuffer,
           wire, wireBody, chunks, framing, buff, parsePc, responseBody, bodyReceived,
           socketReleased, bodyCancelled, size, request, requestWritten,
           originalRequestBody, retryText, retryBody, retryBuilds, retry_prompts, env,
           sseWire, sseStream, buffer, yielded, ssePc >>

gatewayVars == << req, config, gwPc, route, gwResponse, connections, socketError,
                 fetchError >>

relayVars == << relayPc, received, upstreamWritten, delivered, messages, timeoutId,
               released, wsEvents, expired, fragmentedPayload, fragmentedOpcode,
               quiet, handshakeRest, readerBuffer >>

\* the variables of the raw-socket transport's exchange
parseVars == << wire, wireBody, chunks, framing, buff, parsePc, responseBody, bodyReceived,
               socketReleased, bodyCancelled, size, request, requestWritten >>

\* the variables of the retry body builder
retryVars == << originalRequestBody, retryText, retryBody, retryBuilds, retry_prompts, env >>

\* the variables of the line iterator
sseVars == << sseWire, sseStream, buffer, yielded, ssePc >>

serviceVars == << parseVars, retryVars, sseVars >>

\* what no step of a continuation session touches
engineEnv == << geminiConfig, eol, gatewayVars, relayVars, serviceVars >>

(***************************************************************************)
(* Bounds                                                                  *)
(***************************************************************************)
MaxLines == 2                       \* lines the upstream delivers in one session
MaxFrames == 3                      \* frames the upstream sends in one relay session
MaxMessages == 1                    \* messages the downstream peer sends in one relay session
MaxBody == 3                        \* bytes an upstream sends after the preamble
MaxContents == 3                    \* messages in the `contents` of a request body
MaxBuilds == 2                      \* continuation bodies built for one request
MaxChunks == 2                      \* chunks of a chunked body
MaxStream == 5                      \* bytes of the body the line iterator reads

(***************************************************************************)
(* Program constants                                                       *)
(***************************************************************************)
max_consecutive_retries == 5
max_network_retries == 3
retry_delay_ms == 750
StopTextThreshold == 100

\* the fields of GEMINI_CONFIG the engine reads
GEMINI_CONFIG ==
    [max_consecutive_retries |-> max_consecutive_retries,
     max_network_retries |-> max_network_retries,
     retry_delay_ms |-> retry_delay_ms]

NON_RETRYABLE_STATUSES == {400, 401, 403, 404, 429}

\* line terminators an SSE upstream may use (the iterator splits on /\r?\n/)
CR == "\r"
LF == "\n"
Eols == { << LF >>, << CR, LF >> }

(***************************************************************************)
(* Texts are sequences of characters (characters are numbers).             *)
(***************************************************************************)
TextShort == << 1 >>
TextHundred == [i \in 1..100 |-> 2]

Part(hasText, text, thought, functionCall) ==
    [hasText |-> hasText, text |-> text, thought |-> thought, functionCall |-> functionCall]

ThoughtShortPart == Part(TRUE, TextShort, TRUE, FALSE)
ThoughtHundredPart == Part(TRUE, TextHundred, TRUE, FALSE)
AnswerPart == Part(TRUE, TextShort, FALSE, FALSE)
ToolPart == Part(FALSE, << >>, FALSE, TRUE)
\* a part that has a string text, thought: true and a functionCall
ThoughtToolPart == Part(TRUE, TextShort, TRUE, TRUE)

\* An SSE line: its prefix, what JSON.parse of the payload gives, and
\* candidates[0] when there is one.
Line(prefix, json, parts, fr) ==
    [prefix |-> prefix, json |-> json, parts |-> parts, finishReason |-> fr]

NoLine == Line("none", "none", << >>, "")

Lines ==
    { Line("event: ", "none", << >>, ""),
      Line("data: ", "nonjson", << >>, ""),
      Line("data: ", "candidate", << ThoughtShortPart >>, ""),
      Line("data: ", "candidate", << AnswerPart >>, ""),
      Line("data: ", "candidate", << ToolPart >>, ""),
      Line("data: ", "candidate", << >>, "STOP"),
      Line("data: ", "candidate", << ThoughtHundredPart >>, "STOP"),
      Line("data: ", "candidate", << ThoughtShortPart, ThoughtHundredPart >>, "STOP"),
      Line("data: ", "candidate", << ThoughtToolPart >>, "STOP"),
      Line("data: ", "candidate", << >>, "MAX_TOKENS"),
      Line("data: ", "candidate", << >>, "TOOL_CODE"),
      Line("data: ", "candidate", << >>, "SAFETY"),
      Line("data: ", "candidate", << >>, "RECITATION"),
      Line("data: ", "candidate", << >>, "OTHER") }

\* Statuses the upstream answers a request with; a 200 may lack a body.
UpstreamStatuses == {200, 429, 500}

(***************************************************************************)
(* Pure helpers                                                            *)
(***************************************************************************)
statusToGoogleStatus(code) ==
    CASE code = 400 -> "INVALID_ARGUMENT"
      [] code = 401 -> "UNAUTHENTICATED"
      [] code = 403 -> "PERMISSION_DENIED"
      [] code = 404 -> "NOT_FOUND"
      [] code = 429 -> "RESOURCE_EXHAUSTED"
      [] code = 500 -> "INTERNAL"
      [] code = 503 -> "UNAVAILABLE"
      [] code = 504 -> "DEADLINE_EXCEEDED"
      [] OTHER -> "UNKNOWN"

ResponseOk(status) == status >= 200 /\ status <= 299

\* what the gateway knows of an upstream response: its status and whether it
\* has a body
UpstreamResponse(status, body) == [status |-> status, body |-> body]

NoUpstreamResponse == [status |-> 0, body |-> FALSE]

\* new Response(body, {status, headers}); cors is the header
\* Access-Control-Allow-Origin: *
Response(status, contentType, cors, details) ==
    [status |-> status, contentType |-> contentType, cors |-> cors, details |-> details]

NoDetails == [kind |-> "none"]

NoResponse == Response(0, "none", FALSE, NoDetails)

\* ErrorResponse.create(status, message, details)
ErrorResponse(status, details) ==
    Response(status, "application/json; charset=utf-8", TRUE, details)

\* mutant: the error is reported as a bad gateway whatever the upstream said
standardizeInitialError_BadGateway(upstream) ==
    Response(502, "application/json; charset=utf-8", TRUE, NoDetails)

\* the Google-style JSON error, with the status of the upstream response
standardizeInitialError(upstream) ==
    Response(upstream.status, "application/json; charset=utf-8", TRUE, NoDetails)

\* the Response that carries the readable side of the TransformStream
EventStreamResponse == Response(200, "text/event-stream; charset=utf-8", TRUE, NoDetails)

NoChunk == [kind |-> "none"]

\* mutant: the separator is a single newline
EncodeLine_SingleNewline(line) == [kind |-> "line", line |-> line, term |-> "\n"]

\* new TextEncoder().encode(line + "\n\n")
EncodeLine(line) == [kind |-> "line", line |-> line, term |-> "\n\n"]

\* `event: error\ndata: ${JSON.stringify({error: {code, status, ...}})}\n\n`
ErrorEvent(code, status) == [kind |-> "error", code |-> code, status |-> status]

\* mutant: the HTTP reason phrase instead of the Google status
RetryLimitError_HttpName == ErrorEvent(504, "GATEWAY_TIMEOUT")

RetryLimitError == ErrorEvent(504, "DEADLINE_EXCEEDED")

NetworkRetryError == ErrorEvent(502, "BAD_GATEWAY")

\* writeSSEErrorFromUpstream for an upstream body that is not already a
\* Google-style error object: code is the response status.
UpstreamError(status) == ErrorEvent(status, statusToGoogleStatus(status))

\* mutant: the chunk is put in front of what was written before
ForwardChunk_Prepend(ds, chunk) == << chunk >> \o ds

\* writer.write(chunk) resolving: the chunk is appended to what the client gets.
ForwardChunk(ds, chunk) == Append(ds, chunk)

\* `line.startsWith("data: ")`, JSON.parse succeeds, payload.candidates[0] exists
IsInterpreted(line) == line.prefix = "data: " /\ line.json = "candidate"

\* mutant: thought parts are left out of the accumulated text
RECURSIVE AppendTexts_SkipThoughts(_, _)
AppendTexts_SkipThoughts(acc, parts) ==
    IF parts = << >> THEN acc
    ELSE AppendTexts_SkipThoughts(
             IF Head(parts).hasText /\ ~Head(parts).thought
             THEN acc \o Head(parts).text ELSE acc,
             Tail(parts))

\* accumulatedText += part.text for every part with a string text, in order
RECURSIVE AppendTexts(_, _)
AppendTexts(acc, parts) ==
    IF parts = << >> THEN acc
    ELSE AppendTexts(IF Head(parts).hasText THEN acc \o Head(parts).text ELSE acc,
                     Tail(parts))

\* some part has a string text and not thought === true
SawFinalAnswerContent(parts) ==
    \E i \in 1..Len(parts) : parts[i].hasText /\ ~parts[i].thought

\* some part without a string text has functionCall or toolCode
SawToolCalls(parts) ==
    \E i \in 1..Len(parts) : ~parts[i].hasText /\ parts[i].functionCall

\* mutant: 100 characters are already enough
SufficientText_AtLeast(acc) == Len(acc) >= StopTextThreshold

\* accumulatedText.length > 100
SufficientText(acc) == Len(acc) > StopTextThreshold

\* mutant: SAFETY is not among the accepted finish reasons
TerminalFinishReasons_NoSafety == {"MAX_TOKENS", "TOOL_CODE", "RECITATION"}

TerminalFinishReasons == {"MAX_TOKENS", "TOOL_CODE", "SAFETY", "RECITATION"}

\* mutant: a drop is a plain drop, tool call or not
DropReason_IgnoresToolUse(tool) == "DROP"

\* hasReceivedToolCalls ? "DROP_DURING_TOOL_USE" : "DROP"
DropReason(tool) == IF tool THEN "DROP_DURING_TOOL_USE" ELSE "DROP"

\* mutant: the limit check is off by one
RetryLimitReached_OffByOne(count) == count > geminiConfig.max_consecutive_retries

\* consecutiveRetryCount >= this.config.max_consecutive_retries
RetryLimitReached(count) == count >= geminiConfig.max_consecutive_retries

\* this.networkRetryCount >= this.config.max_network_retries
NetworkLimitReached(count) == count >= geminiConfig.max_network_retries

\* the supervisor's `writable.getWriter()` throws a TypeError when the
\* writable is still locked by the engine's writer; the catch swallows it
SupervisorGetsWriter == ~writerLocked

(***************************************************************************)
(* Fragments of processStreamAndRetryInternally shared by several steps    *)
(***************************************************************************)
\* top of the outer loop: a new pass over currentReader begins and the
\* iterator awaits reader.read()
StartAttempt ==
    /\ attempts' = attempts + 1
    /\ interruptionReason' = ""
    /\ hasReceivedFinalAnswerContent' = FALSE
    /\ hasReceivedToolCalls' = FALSE
    /\ finishReason' = ""
    /\ currentLine' = NoLine
    /\ pc' = "read"

\* mutant: the engine returns without closing the writer
CloseWriter_Returns(path) ==
    /\ UNCHANGED << writerState, closeCalls >>
    /\ exitPath' = path
    /\ pendingChunk' = NoChunk
    /\ pc' = "done"

\* `return writer.close()`
CloseWriter(path) ==
    /\ writerState' = IF writerState = "open" THEN "closed" ELSE writerState
    /\ closeCalls' = closeCalls + 1
    /\ exitPath' = path
    /\ pendingChunk' = NoChunk
    /\ pc' = "done"

\* the promise of processStreamAndRetryInternally rejects; the .catch of
\* handleStreamingPost runs
Reject(path) ==
    /\ exitPath' = path
    /\ pendingChunk' = NoChunk
    /\ pc' = "supervised"
    /\ IF SupervisorGetsWriter
       THEN /\ closeCalls' = closeCalls + 1
            /\ writerState' = IF writerState = "open" THEN "closed" ELSE writerState
       ELSE UNCHANGED << closeCalls, writerState >>

\* the inner loop was left without a return: finally-block cleanup, the
\* close when there is no interruption reason, else the retry-limit check
\* and then either the 504 event or the retry delay
EnterRetry(reason) ==
    /\ interruptionReason' = reason
    /\ readerCancelled' = TRUE
    /\ IF reason = ""
       THEN /\ CloseWriter("no_interruption")
            /\ UNCHANGED << consecutiveRetryCount, dispatches >>
       ELSE /\ UNCHANGED << writerState, closeCalls, exitPath >>
            /\ IF RetryLimitReached(consecutiveRetryCount)
               THEN /\ pendingChunk' = RetryLimitError
                    /\ pc' = "write504"
                    /\ UNCHANGED << consecutiveRetryCount, dispatches >>
               ELSE /\ consecutiveRetryCount' = consecutiveRetryCount + 1
                    /\ pendingChunk' = NoChunk
                    /\ IF geminiConfig.retry_delay_ms > 0
                       THEN pc' = "delay" /\ dispatches' = dispatches
                       ELSE pc' = "dispatch" /\ dispatches' = dispatches + 1

\* catch (e) of the retry set-up
NetworkFailure ==
    /\ networkRetryCount' = networkRetryCount + 1
    /\ IF NetworkLimitReached(networkRetryCount + 1)
       THEN pendingChunk' = NetworkRetryError /\ pc' = "write502"
       ELSE pendingChunk' = NoChunk /\ pc' = "backoff"

(***************************************************************************)
(* Initial state: a GeminiHandler was constructed for the request          *)
(***************************************************************************)
\* the state of a session before handleStreamingPost runs
SessionStart ==
    /\ initialResponse = NoUpstreamResponse
    /\ pc = "start"
    /\ response = NoResponse
    /\ writerState = "none"
    /\ writerLocked = FALSE
    /\ closeCalls = 0
    /\ downstream = << >>
    /\ pendingChunk = NoChunk
    /\ currentLine = NoLine
    /\ accumulatedText = << >>
    /\ consecutiveRetryCount = 0
    /\ networkRetryCount = 0
    /\ interruptionReason = ""
    /\ hasReceivedFinalAnswerContent = FALSE
    /\ hasReceivedToolCalls = FALSE
    /\ finishReason = ""
    /\ readerCancelled = FALSE
    /\ exitPath = "none"
    /\ attempts = 0
    /\ dispatches = 0
    /\ arrived = << >>
    /\ writtenIn = << >>
    /\ writeFailed = FALSE
    /\ linesRead = 0

engineVars == << writerState, writerLocked, closeCalls, downstream, pendingChunk,
                 currentLine, accumulatedText, consecutiveRetryCount,
                 networkRetryCount, interruptionReason,
                 hasReceivedFinalAnswerContent, hasReceivedToolCalls, finishReason,
                 readerCancelled, exitPath, attempts, dispatches, arrived,
                 writtenIn, writeFailed, linesRead >>

(***************************************************************************)
(* handleStreamingPost                                                     *)
(***************************************************************************)
\* the request body is not JSON: 400
HandleBadRequestBody ==
    /\ pc = "start"
    /\ response' = ErrorResponse(400, NoDetails)
    /\ pc' = "responded"
    /\ UNCHANGED << engineEnv, initialResponse >>
    /\ UNCHANGED engineVars

\* the initial upstream response is not ok (standardizeInitialError keeps its
\* status) or has no body (502)
HandleInitialFailure ==
    /\ pc = "start"
    /\ \E status \in UpstreamStatuses, body \in BOOLEAN :
          /\ ~ResponseOk(status) \/ ~body
          /\ initialResponse' = UpstreamResponse(status, body)
          /\ response' = IF ~ResponseOk(status)
                         THEN standardizeInitialError(UpstreamResponse(status, body))
                         ELSE ErrorResponse(502, NoDetails)
    /\ pc' = "responded"
    /\ UNCHANGED engineEnv
    /\ UNCHANGED engineVars

\* the initial response is ok with a body: the TransformStream is created,
\* its writer is taken, the engine starts on the initial reader and the 200
\* text/event-stream response is returned
HandleInitialSuccess ==
    /\ pc = "start"
    /\ \E status \in UpstreamStatuses :
          /\ ResponseOk(status)
          /\ initialResponse' = UpstreamResponse(status, TRUE)
    /\ response' = EventStreamResponse
    /\ UNCHANGED engineEnv
    /\ writerState' = "open"
    /\ writerLocked' = TRUE
    /\ readerCancelled' = FALSE
    /\ StartAttempt
    /\ UNCHANGED << closeCalls, downstream, pendingChunk, accumulatedText,
                    consecutiveRetryCount, networkRetryCount, exitPath, dispatches,
                    arrived, writtenIn, writeFailed, linesRead >>

(***************************************************************************)
(* processStreamAndRetryInternally: the inner loop                         *)
(***************************************************************************)
\* the iterator yields a line; the engine calls writer.write(line + "\n\n")
ReadLine ==
    /\ pc = "read"
    /\ ~readerCancelled
    /\ linesRead < MaxLines
    /\ \E l \in Lines :
          /\ currentLine' = l
          /\ pendingChunk' = EncodeLine(l)
          /\ arrived' = IF writeFailed THEN arrived
                        ELSE Append(arrived, [attempt |-> attempts, line |-> l])
    /\ linesRead' = linesRead + 1
    /\ pc' = "write"
    /\ UNCHANGED << engineEnv, initialResponse, response, writerState, writerLocked, closeCalls, downstream,
                    accumulatedText, consecutiveRetryCount, networkRetryCount,
                    interruptionReason, hasReceivedFinalAnswerContent,
                    hasReceivedToolCalls, finishReason, readerCancelled,
                    exitPath, attempts, dispatches, writtenIn, writeFailed >>

\* the iterator ends (the stream ended, or the reader was cancelled before):
\* `if (!finishReasonArrived && !interruptionReason)`
ReadEnd ==
    /\ pc = "read"
    /\ EnterRetry(IF finishReason = "" THEN DropReason(hasReceivedToolCalls) ELSE "")
    /\ UNCHANGED << engineEnv, initialResponse, response, writerLocked, downstream, currentLine, accumulatedText,
                    networkRetryCount, hasReceivedFinalAnswerContent,
                    hasReceivedToolCalls, finishReason, attempts, arrived,
                    writtenIn, writeFailed, linesRead >>

\* reader.read() rejects
ReadError ==
    /\ pc = "read"
    /\ ~readerCancelled
    /\ EnterRetry("FETCH_ERROR")
    /\ UNCHANGED << engineEnv, initialResponse, response, writerLocked, downstream, currentLine, accumulatedText,
                    networkRetryCount, hasReceivedFinalAnswerContent,
                    hasReceivedToolCalls, finishReason, attempts, arrived,
                    writtenIn, writeFailed, linesRead >>

\* writer.write(line) rejects: caught by the catch of the inner loop
WriteLineFailed ==
    /\ pc = "write"
    /\ writerState # "open"
    /\ writeFailed' = TRUE
    /\ currentLine' = NoLine
    /\ EnterRetry("FETCH_ERROR")
    /\ UNCHANGED << engineEnv, initialResponse, response, writerLocked, downstream, accumulatedText,
                    networkRetryCount, hasReceivedFinalAnswerContent,
                    hasReceivedToolCalls, finishReason, attempts, arrived,
                    writtenIn, linesRead >>

\* the rest of the loop body is skipped (`continue`), the iterator awaits the
\* next read
ContinueLoop ==
    /\ pc' = "read"
    /\ pendingChunk' = NoChunk
    /\ UNCHANGED << writerState, closeCalls, exitPath, interruptionReason,
                    readerCancelled, consecutiveRetryCount, dispatches >>

\* writer.write(line) resolves; the line is interpreted
WriteLineDone ==
    /\ pc = "write"
    /\ writerState = "open"
    /\ downstream' = ForwardChunk(downstream, pendingChunk)
    /\ writtenIn' = Append(writtenIn, attempts)
    /\ IF ~IsInterpreted(currentLine)
       THEN /\ ContinueLoop
            /\ UNCHANGED << accumulatedText, hasReceivedFinalAnswerContent,
                            hasReceivedToolCalls, finishReason >>
       ELSE LET parts == currentLine.parts
                acc == AppendTexts(accumulatedText, parts)
                final == hasReceivedFinalAnswerContent \/ SawFinalAnswerContent(parts)
                tool == hasReceivedToolCalls \/ SawToolCalls(parts)
                fr == currentLine.finishReason
            IN  /\ accumulatedText' = acc
                /\ hasReceivedFinalAnswerContent' = final
                /\ hasReceivedToolCalls' = tool
                /\ finishReason' = fr
                /\ CASE fr = "" -> ContinueLoop
                     [] fr = "STOP" ->
                          IF final \/ tool
                          THEN /\ CloseWriter("stop_content")
                               /\ readerCancelled' = TRUE
                               /\ UNCHANGED << interruptionReason,
                                               consecutiveRetryCount, dispatches >>
                          ELSE IF SufficientText(acc)
                          THEN /\ CloseWriter("stop_length")
                               /\ readerCancelled' = TRUE
                               /\ UNCHANGED << interruptionReason,
                                               consecutiveRetryCount, dispatches >>
                          ELSE EnterRetry("STOP_WITHOUT_SUFFICIENT_CONTENT")
                     [] fr \in TerminalFinishReasons ->
                          /\ CloseWriter("finish_terminal")
                          /\ readerCancelled' = TRUE
                          /\ UNCHANGED << interruptionReason, consecutiveRetryCount,
                                          dispatches >>
                     [] OTHER -> EnterRetry("FINISH_ABNORMAL")
    /\ currentLine' = NoLine
    /\ UNCHANGED << engineEnv, initialResponse, response, writerLocked, networkRetryCount, attempts,
                    arrived, writeFailed, linesRead >>

(***************************************************************************)
(* processStreamAndRetryInternally: the retry procedure                    *)
(***************************************************************************)
loopLocals == << interruptionReason, hasReceivedFinalAnswerContent,
                 hasReceivedToolCalls, finishReason, currentLine >>

history == << attempts, arrived, linesRead >>

\* the write of the 504 event resolves; `return writer.close()`
WriteRetryLimitErrorDone ==
    /\ pc = "write504"
    /\ writerState = "open"
    /\ downstream' = ForwardChunk(downstream, pendingChunk)
    /\ writtenIn' = Append(writtenIn, attempts)
    /\ CloseWriter("retry_limit")
    /\ UNCHANGED << engineEnv, initialResponse, response, writerLocked, accumulatedText, consecutiveRetryCount,
                    networkRetryCount, readerCancelled, dispatches,
                    writeFailed >>
    /\ UNCHANGED << loopLocals, history >>

\* the write of the 504 event rejects outside any try: the engine rejects
WriteRetryLimitErrorFailed ==
    /\ pc = "write504"
    /\ writerState # "open"
    /\ writeFailed' = TRUE
    /\ Reject("retry_limit")
    /\ UNCHANGED << engineEnv, initialResponse, response, writerLocked, downstream, accumulatedText,
                    consecutiveRetryCount, networkRetryCount, readerCancelled, dispatches >>
    /\ UNCHANGED << loopLocals, history, writtenIn >>

\* the retry delay elapsed: the continuation body is built and
\* proxy.connectHttp is called
RetryDelayElapsed ==
    /\ pc = "delay"
    /\ dispatches' = dispatches + 1
    /\ pc' = "dispatch"
    /\ UNCHANGED << engineEnv, initialResponse, response, writerState, writerLocked, closeCalls, downstream,
                    pendingChunk, accumulatedText, consecutiveRetryCount,
                    networkRetryCount, readerCancelled, exitPath,
                    writeFailed >>
    /\ UNCHANGED << loopLocals, history, writtenIn >>

\* connectHttp resolves with a non-retryable status: writeSSEErrorFromUpstream
RetryResponseNonRetryable ==
    /\ pc = "dispatch"
    /\ \E status \in UpstreamStatuses :
          /\ status \in NON_RETRYABLE_STATUSES
          /\ pendingChunk' = UpstreamError(status)
    /\ pc' = "writeUpstreamError"
    /\ UNCHANGED << engineEnv, initialResponse, response, writerState, writerLocked, closeCalls, downstream,
                    accumulatedText, consecutiveRetryCount, networkRetryCount,
                    readerCancelled, exitPath, dispatches, writeFailed >>
    /\ UNCHANGED << loopLocals, history, writtenIn >>

\* connectHttp resolves with another status that is not ok, or without a
\* body: `throw new Error(...)`, caught by the catch of the retry set-up
RetryResponseFailed ==
    /\ pc = "dispatch"
    /\ \E status \in UpstreamStatuses, body \in BOOLEAN :
          /\ status \notin NON_RETRYABLE_STATUSES
          /\ ~ResponseOk(status) \/ ~body
    /\ NetworkFailure
    /\ UNCHANGED << engineEnv, initialResponse, response, writerState, writerLocked, closeCalls, downstream,
                    accumulatedText, consecutiveRetryCount, readerCancelled, exitPath, dispatches, writeFailed >>
    /\ UNCHANGED << loopLocals, history, writtenIn >>

\* connectHttp resolves ok with a body: the new reader replaces currentReader
\* and the outer loop starts its next pass
RetryResponseOk ==
    /\ pc = "dispatch"
    /\ \E status \in UpstreamStatuses :
          status \notin NON_RETRYABLE_STATUSES /\ ResponseOk(status)
    /\ readerCancelled' = FALSE
    /\ networkRetryCount' = 0
    /\ StartAttempt
    /\ UNCHANGED << engineEnv, initialResponse, response, writerState, writerLocked, closeCalls, downstream,
                    pendingChunk, accumulatedText, consecutiveRetryCount, exitPath,
                    dispatches, arrived, writtenIn, writeFailed, linesRead >>

\* the write of the upstream's error event resolves; `return writer.close()`
WriteUpstreamErrorDone ==
    /\ pc = "writeUpstreamError"
    /\ writerState = "open"
    /\ downstream' = ForwardChunk(downstream, pendingChunk)
    /\ writtenIn' = Append(writtenIn, attempts)
    /\ CloseWriter("non_retryable")
    /\ UNCHANGED << engineEnv, initialResponse, response, writerLocked, accumulatedText, consecutiveRetryCount,
                    networkRetryCount, readerCancelled, dispatches,
                    writeFailed >>
    /\ UNCHANGED << loopLocals, history >>

\* the write of the upstream's error event rejects inside the try of the
\* retry set-up: its catch counts it as a network failure
WriteUpstreamErrorFailed ==
    /\ pc = "writeUpstreamError"
    /\ writerState # "open"
    /\ writeFailed' = TRUE
    /\ NetworkFailure
    /\ UNCHANGED << engineEnv, initialResponse, response, writerState, writerLocked, closeCalls, downstream,
                    accumulatedText, consecutiveRetryCount, readerCancelled, exitPath, dispatches >>
    /\ UNCHANGED << loopLocals, history, writtenIn >>

\* the write of the 502 event resolves; `return writer.close()`
WriteNetworkErrorDone ==
    /\ pc = "write502"
    /\ writerState = "open"
    /\ downstream' = ForwardChunk(downstream, pendingChunk)
    /\ writtenIn' = Append(writtenIn, attempts)
    /\ CloseWriter("network_limit")
    /\ UNCHANGED << engineEnv, initialResponse, response, writerLocked, accumulatedText, consecutiveRetryCount,
                    networkRetryCount, readerCancelled, dispatches,
                    writeFailed >>
    /\ UNCHANGED << loopLocals, history >>

\* the write of the 502 event rejects inside the catch: the engine rejects
WriteNetworkErrorFailed ==
    /\ pc = "write502"
    /\ writerState # "open"
    /\ writeFailed' = TRUE
    /\ Reject("network_limit")
    /\ UNCHANGED << engineEnv, initialResponse, response, writerLocked, downstream, accumulatedText,
                    consecutiveRetryCount, networkRetryCount, readerCancelled, dispatches >>
    /\ UNCHANGED << loopLocals, history, writtenIn >>

\* the back-off timer elapsed: the outer loop starts its next pass, on the
\* reader it already has
BackoffElapsed ==
    /\ pc = "backoff"
    /\ StartAttempt
    /\ UNCHANGED << engineEnv, initialResponse, response, writerState, writerLocked, closeCalls, downstream,
                    pendingChunk, accumulatedText, consecutiveRetryCount,
                    networkRetryCount, readerCancelled, exitPath,
                    dispatches, arrived, writtenIn, writeFailed, linesRead >>

(***************************************************************************)
(* Environment: the client goes away; the readable side is cancelled and   *)
(* the writable side becomes errored.  The engine looks at the writer only *)
(* through write() and through the close() that directly follows a         *)
(* resolved write, so a disconnect at any other moment is the same to it   *)
(* as one that arrives while its next write is pending.                    *)
(***************************************************************************)
WritePending == {"write", "write504", "writeUpstreamError", "write502"}

ClientDisconnect ==
    /\ pc \in WritePending
    /\ writerState = "open"
    /\ writerState' = "errored"
    /\ UNCHANGED << engineEnv, initialResponse, pc, response, writerLocked, closeCalls, downstream, pendingChunk,
                    accumulatedText, consecutiveRetryCount, networkRetryCount,
                    readerCancelled, exitPath, dispatches, writeFailed >>
    /\ UNCHANGED << loopLocals, history, writtenIn >>

(***************************************************************************)
(* The gateway: SpectreProxy.handleRequest, SocketProxy.connectHttp (the   *)
(* transport selector), FetchProxy.connectHttp and the Gemini handler's    *)
(* treatment of the transport's response.  One request per behaviour.      *)
(***************************************************************************)
\* keys of API_MAPPING (without the slash) that the model uses, and their
\* forceFetch
PresetIds == {"gemini", "telegram", "discord"}

forceFetch(id) == id = "discord"

\* ConfigManager.DEFAULT_CONFIG, the fields the router and the selector read
DEFAULT_CONFIG ==
    [AUTH_TOKEN |-> "your-auth-token",
     AGGRESSIVE_FALLBACK |-> TRUE,
     PRESET_AUTH_ENABLED |-> FALSE,
     GEMINI_SPECIAL_HANDLING_ENABLED |-> TRUE]

\* configurations the environment can set
Configs ==
    [AUTH_TOKEN : {"your-auth-token"},
     AGGRESSIVE_FALLBACK : BOOLEAN,
     PRESET_AUTH_ENABLED : BOOLEAN,
     GEMINI_SPECIAL_HANDLING_ENABLED : BOOLEAN]

\* url.pathname.split("/").filter(Boolean) of the requests of the model
RequestPaths ==
    { << >>,
      << "test" >>,
      << "test", "x" >>,
      << "your-auth-token" >>,
      << "gemini", "v1beta" >>,
      << "your-auth-token", "gemini", "v1beta" >>,
      << "telegram", "bot" >>,
      << "your-auth-token", "telegram", "bot" >>,
      << "discord", "users" >>,
      << "your-auth-token", "discord", "users" >>,
      << "https", "example.com" >>,
      << "your-auth-token", "https", "example.com" >>,
      << "your-auth-token", "wss", "example.com" >>,
      << "your-auth-token", "1x", "example.com" >>,
      << "unknown" >> }

\* a request: its path, whether it has `Upgrade: websocket`, and whether it
\* is a POST with alt=sse
Requests == [parts : RequestPaths, upgrade : BOOLEAN, stream : BOOLEAN]

NoRequest == [parts |-> << >>, upgrade |-> FALSE, stream |-> FALSE]

\* `new URL(dstUrl)` of the generic proxy throws for a scheme that does not
\* start with a letter
ValidScheme(protocol) == protocol # "1x"

\* /^wss?:\/\//i.test(dstUrl)
IsWebSocketUrl(protocol) == protocol \in {"ws", "wss"}

\* mutant: every request counts as authenticated
isAuthenticated_Always(parts, cfg) == TRUE

\* parts.length > 0 && parts[0] === config.AUTH_TOKEN
isAuthenticated(parts, cfg) == parts # << >> /\ parts[1] = cfg.AUTH_TOKEN

\* parts without the token
effectiveParts(parts, cfg) == IF isAuthenticated(parts, cfg) THEN Tail(parts) ELSE parts

\* mutant: presets never ask for the token
PresetNeedsAuth_Never(cfg, authenticated) == FALSE

\* config.PRESET_AUTH_ENABLED && !isAuthenticated
PresetNeedsAuth(cfg, authenticated) == cfg.PRESET_AUTH_ENABLED /\ ~authenticated

\* error messages are strings: sequences of characters
networkErrorKeywords ==
    { << "n", "e", "t", "w", "o", "r", "k" >>,
      << "c", "o", "n", "n", "e", "c", "t", "i", "o", "n" >>,
      << "c", "o", "n", "n", "e", "c", "t" >>,
      << "s", "o", "c", "k", "e", "t" >>,
      << "t", "c", "p" >>,
      << "t", "i", "m", "e", "o", "u", "t" >>,
      << "t", "i", "m", "e", "d", " ", "o", "u", "t" >>,
      << "r", "e", "f", "u", "s", "e", "d" >>,
      << "r", "e", "s", "e", "t" >>,
      << "a", "b", "o", "r", "t", "e", "d" >>,
      << "c", "l", "o", "s", "e", "d" >>,
      << "l", "o", "s", "t" >>,
      << "u", "n", "r", "e", "a", "c", "h", "a", "b", "l", "e" >>,
      << "e", "c", "o", "n", "n", "r", "e", "f", "u", "s", "e", "d" >>,
      << "e", "c", "o", "n", "n", "r", "e", "s", "e", "t" >>,
      << "e", "t", "i", "m", "e", "d", "o", "u", "t" >>,
      << "e", "n", "e", "t", "u", "n", "r", "e", "a", "c", "h" >>,
      << "e", "h", "o", "s", "t", "u", "n", "r", "e", "a", "c", "h" >>,
      << "e", "p", "i", "p", "e" >>,
      << "s", "t", "r", "e", "a", "m" >> }

MsgConnectionLost ==
    << "N", "e", "t", "w", "o", "r", "k", " ", "c", "o", "n", "n", "e", "c", "t", "i", "o", "n", " ", "l", "o", "s", "t", "." >>

MsgTimedOut ==
    << "E", "T", "I", "M", "E", "D", "O", "U", "T" >>

MsgParse ==
    << "U", "n", "a", "b", "l", "e", " ", "t", "o", " ", "p", "a", "r", "s", "e", " ", "r", "e", "s", "p", "o", "n", "s", "e", " ", "h", "e", "a", "d", "e", "r", "s" >>

MsgStatusLine ==
    << "I", "n", "v", "a", "l", "i", "d", " ", "s", "t", "a", "t", "u", "s", " ", "l", "i", "n", "e", ":", " ", "I", "C", "Y", " ", "2", "0", "0", " ", "O", "K" >>

MsgCertificate ==
    << "c", "e", "r", "t", "i", "f", "i", "c", "a", "t", "e", " ", "v", "e", "r", "i", "f", "y", " ", "f", "a", "i", "l", "e", "d" >>

MsgEmpty ==
    << >>

toLowerCase(c) ==
    CASE c = "C" -> "c"
      [] c = "D" -> "d"
      [] c = "E" -> "e"
      [] c = "I" -> "i"
      [] c = "K" -> "k"
      [] c = "M" -> "m"
      [] c = "N" -> "n"
      [] c = "O" -> "o"
      [] c = "T" -> "t"
      [] c = "U" -> "u"
      [] c = "Y" -> "y"
      [] OTHER -> c

SocketErrorMessages ==
    { MsgConnectionLost, MsgTimedOut, MsgParse, MsgStatusLine, MsgCertificate, MsgEmpty }

FetchErrorMessages == { MsgConnectionLost, MsgTimedOut }

NoError == << "-" >>

\* s.toLowerCase()
LowerCase(s) == [i \in 1..Len(s) |-> toLowerCase(s[i])]

\* s.includes(k)
Includes(s, k) ==
    \E i \in 0..(Len(s) - Len(k)) : SubSeq(s, i + 1, i + Len(k)) = k

\* mutant: the message is matched as it is spelled
shouldFallbackToFetch_CaseSensitive(message) ==
    /\ message # << >>
    /\ \E keyword \in networkErrorKeywords : Includes(message, keyword)

\* false for an empty message, else whether the lower-cased message contains
\* one of the keywords
shouldFallbackToFetch(message) ==
    /\ message # << >>
    /\ \E keyword \in networkErrorKeywords : Includes(LowerCase(message), keyword)

\* what an upstream answers: a status, and with or without the header
\* Access-Control-Allow-Origin
UpstreamReplies == { Response(st, "upstream", c, NoDetails) : st \in {200, 500}, c \in BOOLEAN }

\* generateIndexPage in a Response with only a Content-Type header
IndexPage == Response(200, "text/html; charset=utf-8", FALSE, NoDetails)

\* new Response(null, {status: 101, webSocket: server})
SwitchingProtocols == Response(101, "none", FALSE, NoDetails)

\* this.handleError(socketError, "Socket connection"): status 500
SocketErrorResponse(message) ==
    ErrorResponse(500, [kind |-> "socket", message |-> message])

\* the 502 FetchProxy.connectHttp returns when fetch rejects
FetchErrorResponse(message) ==
    ErrorResponse(502, [kind |-> "fetch", message |-> message])

\* the 502 of the `catch (fetchError)` of SocketProxy.connectHttp, with both
\* failure records.  FetchProxy.connectHttp catches every rejection of fetch
\* itself and returns FetchErrorResponse, so no step of the gateway gets here.
BothFailedResponse(socketMessage, fetchMessage) ==
    ErrorResponse(502, [kind |-> "both",
                        socket |-> [error |-> socketMessage, duration |-> "socketTime"],
                        fetch |-> [error |-> fetchMessage, duration |-> "fetchTime"]])

\* what the caller of the transport makes of the transport's response: the
\* Gemini handler rewrites it, every other route returns it as it is
Delivered(resp) ==
    IF route = "gemini"
    THEN IF ~ResponseOk(resp.status)
         THEN standardizeInitialError(UpstreamResponse(resp.status, TRUE))
         ELSE IF req.stream
         THEN EventStreamResponse
         ELSE [resp EXCEPT !.cors = TRUE]
    ELSE resp

\* `return` of handleRequest
Return(resp) ==
    /\ gwResponse' = resp
    /\ gwPc' = "returned"

\* a transport is called: the connection it opens and the await it leaves
\* the gateway at
Open(transport) ==
    /\ connections' = Append(connections, transport)
    /\ gwPc' = transport
    /\ gwResponse' = gwResponse

\* no request is being handled
GatewayIdle ==
    /\ req = NoRequest
    /\ config = DEFAULT_CONFIG
    /\ gwPc = "idle"
    /\ route = "none"
    /\ gwResponse = NoResponse
    /\ connections = << >>
    /\ socketError = NoError
    /\ fetchError = NoError

engineState == << geminiConfig, eol, initialResponse, pc, response, engineVars >>

\* handleRequest up to its first await: the router
RouteRequest ==
    /\ gwPc = "route"
    /\ LET parts == req.parts
           auth == isAuthenticated(parts, config)
           eff == effectiveParts(parts, config)
       IN  IF parts = << >>
           THEN /\ route' = "index"
                /\ Return(IndexPage)
                /\ connections' = connections
           ELSE IF parts[1] = "test"
           THEN /\ route' = "test"
                /\ Open("socket")
           ELSE IF eff = << >>
           THEN /\ route' = "rejected"
                /\ Return(ErrorResponse(400, NoDetails))
                /\ connections' = connections
           ELSE IF eff[1] \in PresetIds
           THEN IF PresetNeedsAuth(config, auth)
                THEN /\ route' = "rejected"
                     /\ Return(ErrorResponse(401, NoDetails))
                     /\ connections' = connections
                ELSE IF eff[1] = "gemini" /\ config.GEMINI_SPECIAL_HANDLING_ENABLED
                THEN /\ route' = "gemini"
                     /\ \/ Open("socket")
                        \/ /\ req.stream
                           /\ Return(ErrorResponse(400, NoDetails))
                           /\ connections' = connections
                ELSE /\ route' = "preset"
                     /\ IF req.upgrade
                        THEN /\ Return(ErrorResponse(400, NoDetails))
                             /\ connections' = connections
                        ELSE IF forceFetch(eff[1])
                        THEN Open("fetch")
                        ELSE Open("socket")
           ELSE IF auth
           THEN IF ~ValidScheme(eff[1])
                THEN /\ route' = "rejected"
                     /\ Return(ErrorResponse(400, NoDetails))
                     /\ connections' = connections
                ELSE /\ route' = "generic"
                     /\ IF req.upgrade
                        THEN IF IsWebSocketUrl(eff[1])
                             THEN Open("websocket")
                             ELSE /\ Return(ErrorResponse(400, NoDetails))
                                  /\ connections' = connections
                        ELSE Open("socket")
           ELSE /\ route' = "rejected"
                /\ Return(ErrorResponse(401, NoDetails))
                /\ connections' = connections
    /\ UNCHANGED << req, config, socketError, fetchError >>
    /\ UNCHANGED << engineState, relayVars, serviceVars >>

\* SocketProxy.connectHttp: the socket connects, the request is written and
\* parseResponse returns the upstream's response
SocketResolved ==
    /\ gwPc = "socket"
    /\ \E resp \in UpstreamReplies : Return(Delivered(resp))
    /\ UNCHANGED << req, config, route, connections, socketError, fetchError >>
    /\ UNCHANGED << engineState, relayVars, serviceVars >>

\* SocketProxy.connectHttp: connect, a write or parseResponse throws; the
\* catch decides between the fallback and the error response
SocketFailed ==
    /\ gwPc = "socket"
    /\ \E message \in SocketErrorMessages :
          /\ socketError' = message
          /\ IF config.AGGRESSIVE_FALLBACK \/ shouldFallbackToFetch(message)
             THEN /\ connections' = Append(connections, "fetch")
                  /\ gwPc' = "fallback"
                  /\ gwResponse' = gwResponse
             ELSE /\ Return(Delivered(SocketErrorResponse(message)))
                  /\ connections' = connections
    /\ UNCHANGED << req, config, route, fetchError >>
    /\ UNCHANGED << engineState, relayVars, serviceVars >>

\* FetchProxy.connectHttp called by the selector: fetch resolves
FallbackResolved ==
    /\ gwPc = "fallback"
    /\ \E resp \in UpstreamReplies : Return(Delivered(resp))
    /\ UNCHANGED << req, config, route, connections, socketError, fetchError >>
    /\ UNCHANGED << engineState, relayVars, serviceVars >>

\* FetchProxy.connectHttp called by the selector: fetch rejects, FetchProxy
\* returns its 502, the selector returns it as the response of the fallback
FallbackFailed ==
    /\ gwPc = "fallback"
    /\ \E message \in FetchErrorMessages :
          /\ fetchError' = message
          /\ Return(Delivered(FetchErrorResponse(message)))
    /\ UNCHANGED << req, config, route, connections, socketError >>
    /\ UNCHANGED << engineState, relayVars, serviceVars >>

\* FetchProxy.connectHttp of a forceFetch route: fetch resolves
FetchResolved ==
    /\ gwPc = "fetch"
    /\ \E resp \in UpstreamReplies : Return(Delivered(resp))
    /\ UNCHANGED << req, config, route, connections, socketError, fetchError >>
    /\ UNCHANGED << engineState, relayVars, serviceVars >>

\* FetchProxy.connectHttp of a forceFetch route: fetch rejects
FetchFailed ==
    /\ gwPc = "fetch"
    /\ \E message \in FetchErrorMessages :
          /\ fetchError' = message
          /\ Return(Delivered(FetchErrorResponse(message)))
    /\ UNCHANGED << req, config, route, connections, socketError >>
    /\ UNCHANGED << engineState, relayVars, serviceVars >>

\* SocketProxy.connectWebSocket: the handshake got its 101, the relay starts
WebSocketAccepted ==
    /\ gwPc = "websocket"
    /\ Return(SwitchingProtocols)
    /\ UNCHANGED << req, config, route, connections, socketError, fetchError >>
    /\ UNCHANGED << engineState, relayVars, serviceVars >>

\* SocketProxy.connectWebSocket: connect or the handshake fails
WebSocketFailed ==
    /\ gwPc = "websocket"
    /\ Return(ErrorResponse(502, NoDetails))
    /\ UNCHANGED << req, config, route, connections, socketError, fetchError >>
    /\ UNCHANGED << engineState, relayVars, serviceVars >>

(***************************************************************************)
(* The WebSocket relay: BaseProxy.relayWebSocketFrames, with the frame     *)
(* reader SocketFramesReader.nextFrame and the frame packer _packFrame.    *)
(* The pump is one task; the idle timer and the message, close and error   *)
(* handlers of ws run between its awaits.  Each read of the pump brings    *)
(* one whole frame.                                                        *)
(***************************************************************************)
\* a payload is its length and what names its bytes
Payload(len, bytes) == [len |-> len, bytes |-> bytes]

EmptyPayload == Payload(0, << >>)

NoPayload == Payload(0, << "null" >>)

\* mutant: the second array is put before the first
concatUint8Arrays_Swapped(a, b) == Payload(a.len + b.len, b.bytes \o a.bytes)

\* concatUint8Arrays(a, b)
concatUint8Arrays(a, b) == Payload(a.len + b.len, a.bytes \o b.bytes)

\* a frame as the reader parses it
Frame(fin, opcode, payload) == [fin |-> fin, opcode |-> opcode, payload |-> payload]

\* frames the upstream sends
UpstreamFrames ==
    { Frame(TRUE, 9, Payload(2, << "p" >>)),
      Frame(TRUE, 10, EmptyPayload),
      Frame(TRUE, 1, Payload(3, << "a" >>)),
      Frame(FALSE, 1, Payload(3, << "a" >>)),
      Frame(FALSE, 0, Payload(1, << "b" >>)),
      Frame(TRUE, 0, Payload(1, << "c" >>)),
      Frame(TRUE, 8, EmptyPayload) }

\* payloads of the message events of the downstream peer
MessagePayloads ==
    { Payload(len, << "m" >>) : len \in {0, 125, 126, 127, 65535, 65536} }

\* `throw new Error("Payload too large")`
PayloadTooLarge == [header |-> << >>, opcode |-> 0, payload |-> NoPayload, thrown |-> TRUE]

\* mutant: the one-byte form is used up to 126
_packFrame_OneByteUpTo126(opcode, payload) ==
    LET len == payload.len
    IN  IF len < 127
        THEN [header |-> << 128 + opcode, 128 + len >>,
              opcode |-> opcode, payload |-> payload, thrown |-> FALSE]
        ELSE IF len < 65536
        THEN [header |-> << 128 + opcode, 128 + 126, (len \div 256) % 256, len % 256 >>,
              opcode |-> opcode, payload |-> payload, thrown |-> FALSE]
        ELSE PayloadTooLarge

\* the frame written to the upstream: the header bytes in front of the mask
\* (FIN | opcode, maskBit | length form), and the payload the masked bytes
\* stand for
_packFrame(opcode, payload) ==
    LET len == payload.len
    IN  IF len < 126
        THEN [header |-> << 128 + opcode, 128 + len >>,
              opcode |-> opcode, payload |-> payload, thrown |-> FALSE]
        ELSE IF len < 65536
        THEN [header |-> << 128 + opcode, 128 + 126, (len \div 256) % 256, len % 256 >>,
              opcode |-> opcode, payload |-> payload, thrown |-> FALSE]
        ELSE PayloadTooLarge

packTextFrame(payload) == _packFrame(1, payload)

\* mutant: the pong is sent without the payload of the ping
packPongFrame_Empty(payload) == _packFrame(10, EmptyPayload)

packPongFrame(payload) == _packFrame(10, payload)

Resources == {"ws", "socket", "writer", "reader"}

\* writer.close() or socket.close() was called: writes are rejected
WriterClosed == released["writer"] > 0 \/ released["socket"] > 0

\* reader.cancel() or socket.close() was called: reads resolve with done
ReaderCancelled == released["reader"] > 0 \/ released["socket"] > 0

\* ws.close() was called or the peer closed: no message event follows
WsClosed == released["ws"] > 0 \/ wsEvents # {}

\* cleanup() called n times in one step: clearTimeout, then close() on ws,
\* socket and writer and cancel() on the reader, each time
cleanup(n) ==
    /\ timeoutId' = FALSE
    /\ released' = [r \in Resources |-> released[r] + n]

\* no relay session is running
RelayIdle ==
    /\ relayPc = "idle"
    /\ received = << >>
    /\ upstreamWritten = << >>
    /\ delivered = << >>
    /\ messages = << >>
    /\ timeoutId = FALSE
    /\ released = [r \in Resources |-> 0]
    /\ wsEvents = {}
    /\ expired = FALSE
    /\ fragmentedPayload = NoPayload
    /\ fragmentedOpcode = 0
    /\ quiet = TRUE
    /\ handshakeRest = << >>
    /\ readerBuffer = << >>

\* connectWebSocket has written the handshake request and awaits
\* readUntilDoubleCRLF
InitRelay ==
    /\ relayPc = "handshake"
    /\ received = << >>
    /\ upstreamWritten = << >>
    /\ delivered = << >>
    /\ messages = << >>
    /\ timeoutId = FALSE
    /\ released = [r \in Resources |-> 0]
    /\ wsEvents = {}
    /\ expired = FALSE
    /\ fragmentedPayload = NoPayload
    /\ fragmentedOpcode = 0
    /\ quiet = TRUE
    /\ handshakeRest = << >>
    /\ readerBuffer = << >>

\* readUntilDoubleCRLF returns the text it read: the 101 response and, when
\* the upstream sent a frame right behind it, that frame in the same read.
\* relayWebSocketFrames is called with the reader: the timer is set, the
\* handlers are registered, and the pump makes a SocketFramesReader, whose
\* buffer is empty, and awaits its first read
connectWebSocket ==
    /\ relayPc = "handshake"
    /\ \E rest \in { << >>, << Frame(TRUE, 1, Payload(3, << "a" >>)) >> } :
          handshakeRest' = rest
    /\ readerBuffer' = << >>
    /\ relayPc' = "read"
    /\ timeoutId' = TRUE
    /\ quiet' = TRUE
    /\ UNCHANGED << received, upstreamWritten, delivered, messages, released, wsEvents,
                    expired, fragmentedPayload, fragmentedOpcode >>
    /\ UNCHANGED << engineState, gatewayVars, serviceVars >>

\* the pump leaves its loop: the finally block calls cleanup(); n counts a
\* cleanup() made just before
PumpExit(n) ==
    /\ relayPc' = "exited"
    /\ cleanup(n + 1)

\* the pump got `frame` from nextFrame: resetTimeout, then the switch
PumpDispatch(frame) ==
    /\ quiet' = TRUE
    /\ IF frame.opcode \in {1, 2}
       THEN /\ delivered' = Append(delivered, frame.payload)
            /\ timeoutId' = TRUE
            /\ relayPc' = "read"
            /\ released' = released
       ELSE IF frame.opcode = 8
       THEN /\ PumpExit(1)
            /\ delivered' = delivered
       ELSE /\ timeoutId' = TRUE
            /\ relayPc' = "read"
            /\ UNCHANGED << delivered, released >>

\* the read of nextFrame resolves with a frame: nextFrame up to its next
\* await or its return, and on a return the pump up to its next await
PumpFrame ==
    /\ relayPc = "read"
    /\ ~ReaderCancelled
    /\ Len(received) < MaxFrames
    /\ \E f \in UpstreamFrames :
          /\ received' = Append(received, f)
          /\ IF f.opcode = 9
             THEN /\ upstreamWritten' =
                        IF WriterClosed THEN upstreamWritten
                        ELSE Append(upstreamWritten, packPongFrame(f.payload))
                  /\ relayPc' = "pong"
                  /\ quiet' = FALSE
                  /\ UNCHANGED << delivered, timeoutId, released, fragmentedPayload,
                                  fragmentedOpcode >>
             ELSE IF f.opcode = 10
             THEN /\ quiet' = FALSE
                  /\ UNCHANGED << relayPc, upstreamWritten, delivered, timeoutId, released,
                                  fragmentedPayload, fragmentedOpcode >>
             ELSE IF f.opcode = 0
             THEN IF fragmentedPayload = NoPayload
                  THEN /\ PumpExit(0)
                       /\ quiet' = FALSE
                       /\ UNCHANGED << upstreamWritten, delivered, fragmentedPayload,
                                       fragmentedOpcode >>
                  ELSE IF f.fin
                  THEN /\ PumpDispatch(Frame(TRUE, fragmentedOpcode,
                                             concatUint8Arrays(fragmentedPayload, f.payload)))
                       /\ fragmentedPayload' = NoPayload
                       /\ fragmentedOpcode' = 0
                       /\ upstreamWritten' = upstreamWritten
                  ELSE /\ fragmentedPayload' = concatUint8Arrays(fragmentedPayload, f.payload)
                       /\ quiet' = FALSE
                       /\ UNCHANGED << relayPc, upstreamWritten, delivered, timeoutId,
                                       released, fragmentedOpcode >>
             ELSE IF ~f.fin
             THEN /\ fragmentedPayload' = f.payload
                  /\ fragmentedOpcode' = f.opcode
                  /\ quiet' = FALSE
                  /\ UNCHANGED << relayPc, upstreamWritten, delivered, timeoutId, released >>
             ELSE /\ PumpDispatch(f)
                  /\ fragmentedPayload' = NoPayload
                  /\ fragmentedOpcode' = 0
                  /\ upstreamWritten' = upstreamWritten
    /\ UNCHANGED << messages, wsEvents, expired >>
    /\ UNCHANGED << handshakeRest, readerBuffer, engineState, gatewayVars, serviceVars >>

\* the write of the pong settles (resolved, or rejected and caught): nextFrame
\* goes on to its next read
PongSettled ==
    /\ relayPc = "pong"
    /\ relayPc' = "read"
    /\ UNCHANGED << received, upstreamWritten, delivered, messages, timeoutId, released,
                    wsEvents, expired, fragmentedPayload, fragmentedOpcode >>
    /\ UNCHANGED << quiet, handshakeRest, readerBuffer, engineState, gatewayVars, serviceVars >>

\* the read of nextFrame resolves with done (the upstream closed, or the
\* reader was cancelled) or rejects: the pump leaves its loop
PumpEnd ==
    /\ relayPc = "read"
    /\ PumpExit(0)
    /\ UNCHANGED << received, upstreamWritten, delivered, messages, wsEvents, expired,
                    fragmentedPayload, fragmentedOpcode >>
    /\ UNCHANGED << quiet, handshakeRest, readerBuffer, engineState, gatewayVars, serviceVars >>

\* a message event of ws: resetTimeout, the text frame is packed and written;
\* a throw of the packer or a rejected write ends in cleanup()
messageHandler ==
    /\ relayPc \notin {"idle", "handshake"}
    /\ ~WsClosed
    /\ Len(messages) < MaxMessages
    /\ quiet' = TRUE
    /\ \E payload \in MessagePayloads :
          /\ messages' = Append(messages, payload)
          /\ LET frame == packTextFrame(payload)
             IN  IF frame.thrown \/ WriterClosed
                 THEN /\ cleanup(1)
                      /\ upstreamWritten' = upstreamWritten
                 ELSE /\ timeoutId' = TRUE
                      /\ upstreamWritten' = Append(upstreamWritten, frame)
                      /\ released' = released
    /\ UNCHANGED << relayPc, received, delivered, wsEvents, expired, fragmentedPayload,
                    fragmentedOpcode >>
    /\ UNCHANGED << handshakeRest, readerBuffer, engineState, gatewayVars, serviceVars >>

\* the close event of ws (the peer closed, or ws.close() went through)
closeHandler ==
    /\ relayPc \notin {"idle", "handshake"}
    /\ "close" \notin wsEvents
    /\ wsEvents' = wsEvents \cup {"close"}
    /\ cleanup(1)
    /\ UNCHANGED << relayPc, received, upstreamWritten, delivered, messages, expired,
                    fragmentedPayload, fragmentedOpcode >>
    /\ UNCHANGED << quiet, handshakeRest, readerBuffer, engineState, gatewayVars, serviceVars >>

\* the error event of ws
errorHandler ==
    /\ relayPc \notin {"idle", "handshake"}
    /\ wsEvents = {}
    /\ released["ws"] = 0
    /\ wsEvents' = {"error"}
    /\ cleanup(1)
    /\ UNCHANGED << relayPc, received, upstreamWritten, delivered, messages, expired,
                    fragmentedPayload, fragmentedOpcode >>
    /\ UNCHANGED << quiet, handshakeRest, readerBuffer, engineState, gatewayVars, serviceVars >>

\* the idle timer fires
TimerExpired ==
    /\ timeoutId
    /\ expired' = TRUE
    /\ cleanup(1)
    /\ UNCHANGED << relayPc, received, upstreamWritten, delivered, messages, wsEvents,
                    fragmentedPayload, fragmentedOpcode >>
    /\ UNCHANGED << quiet, handshakeRest, readerBuffer, engineState, gatewayVars, serviceVars >>

(***************************************************************************)
(* The exchange of the raw-socket transport: SocketProxy.connectHttp writes*)
(* the request, BaseProxy.parseResponse reads the response and feeds the   *)
(* stream of the Response it returns.  Bytes are numbers; the upstream sends*)
(* a preamble (a status line and headers, then CR LF CR LF) and wireBody, in*)
(* reads of any size, and then closes the connection or leaves it open.    *)
(* The header section says nothing of the body, gives a Content-Length, or *)
(* announces a chunked body, which readChunks decodes.                     *)
(***************************************************************************)
\* text.indexOf("\r\n\r\n"), counted from 1; 0 when there is none
parseHttpHeaders(b) ==
    LET ends == { i \in 1..(Len(b) - 3) :
                    b[i] = 13 /\ b[i + 1] = 10 /\ b[i + 2] = 13 /\ b[i + 3] = 10 }
    IN  IF ends = {} THEN 0 ELSE CHOOSE i \in ends : \A j \in ends : i <= j

\* mutant: a chunk is yielded as soon as its payload is in buff, without
\* waiting for the CR LF that ends it
RECURSIVE readChunks_PayloadOnly(_, _, _)
readChunks_PayloadOnly(b, sz, out) ==
    IF sz = 0
    THEN LET ends == { i \in 1..(Len(b) - 1) : b[i] = 13 /\ b[i + 1] = 10 }
             pos == IF ends = {} THEN 0 ELSE CHOOSE i \in ends : \A j \in ends : i <= j
             parsed == IF pos = 2 /\ b[1] \in 49..57 THEN b[1] - 48 ELSE -1
         IN  IF pos = 0 THEN [at |-> "chunkSize", buff |-> b, size |-> 0, out |-> out]
             ELSE IF parsed <= 0 THEN [at |-> "end", buff |-> b, size |-> 0, out |-> out]
             ELSE readChunks_PayloadOnly(SubSeq(b, pos + 2, Len(b)), parsed, out)
    ELSE IF Len(b) < sz
         THEN [at |-> "chunkData", buff |-> b, size |-> sz, out |-> out]
         ELSE readChunks_PayloadOnly(SubSeq(b, sz + 3, Len(b)), 0, out \o SubSeq(b, 1, sz))

\* readChunks from one await to the next, or to its end: b is `buff`, sz is
\* `size` while a chunk is being filled and 0 while a size line is looked
\* for, out the bytes of the chunks yielded on the way.  parseInt(sizeStr, 16)
\* is the value of the longest prefix of hex digits of the size line, and
\* NaN, here -1, when there is none
RECURSIVE readChunks(_, _, _)
readChunks(b, sz, out) ==
    IF sz = 0
    THEN LET ends == { i \in 1..(Len(b) - 1) : b[i] = 13 /\ b[i + 1] = 10 }
             pos == IF ends = {} THEN 0 ELSE CHOOSE i \in ends : \A j \in ends : i <= j
             digit(c) == IF c \in 48..57 THEN c - 48
                         ELSE IF c \in 97..102 THEN c - 87
                         ELSE IF c \in 65..70 THEN c - 55
                         ELSE -1
             stops == { i \in 1..(pos - 1) : digit(b[i]) = -1 }
             n == IF stops = {} THEN pos - 1
                  ELSE (CHOOSE i \in stops : \A j \in stops : i <= j) - 1
             RECURSIVE value(_)
             value(i) == IF i = 0 THEN 0 ELSE 16 * value(i - 1) + digit(b[i])
             parsed == IF n = 0 THEN -1 ELSE value(n)
         IN  IF pos = 0 THEN [at |-> "chunkSize", buff |-> b, size |-> 0, out |-> out]
             ELSE IF parsed <= 0 THEN [at |-> "end", buff |-> b, size |-> 0, out |-> out]
             ELSE readChunks(SubSeq(b, pos + 2, Len(b)), parsed, out)
    ELSE IF Len(b) < sz + 2
         THEN [at |-> "chunkData", buff |-> b, size |-> sz, out |-> out]
         ELSE readChunks(SubSeq(b, sz + 3, Len(b)), 0, out \o SubSeq(b, 1, sz))

\* the wire form of a chunked body: each chunk as its size in hex, CR LF,
\* its payload, CR LF; then the zero-size chunk and the final CR LF
RECURSIVE ChunkedBody(_)
ChunkedBody(payloads) ==
    IF payloads = << >> THEN << 48, 13, 10, 13, 10 >>
    ELSE LET n == Len(Head(payloads))
         IN  << IF n < 10 THEN 48 + n ELSE 87 + n, 13, 10 >> \o Head(payloads) \o << 13, 10 >>
                 \o ChunkedBody(Tail(payloads))

\* no response is being parsed
ParseIdle ==
    /\ wire = << >>
    /\ wireBody = << >>
    /\ chunks = << >>
    /\ framing = [kind |-> "none", length |-> 0]
    /\ buff = << >>
    /\ parsePc = "idle"
    /\ responseBody = << >>
    /\ bodyReceived = 0
    /\ socketReleased = 0
    /\ bodyCancelled = FALSE
    /\ size = 0
    /\ request = [method |-> "GET", hasBody |-> FALSE, byteLength |-> 0, contentLength |-> -1]
    /\ requestWritten = [contentLength |-> -1, bodyLength |-> 0]

\* connectHttp buffers the body of the request, sets Content-Length and
\* writes the request line, the headers and the body; -1 stands for a
\* request without a Content-Length header
WriteRequest ==
    /\ parsePc = "request"
    /\ requestWritten' =
          [contentLength |->
               IF request.hasBody
               THEN IF request.byteLength > 0 THEN request.byteLength
                    ELSE IF request.method \in {"POST", "PUT"} THEN 0
                    ELSE request.contentLength
               ELSE request.contentLength,
           bodyLength |-> IF request.hasBody THEN request.byteLength ELSE 0]
    /\ parsePc' = "headers"
    /\ UNCHANGED << wire, wireBody, chunks, framing, buff, responseBody, bodyReceived,
                    socketReleased, bodyCancelled, size, request >>
    /\ UNCHANGED << engineState, gatewayVars, relayVars, retryVars, sseVars >>

\* the read of the header loop resolves with bytes: they are added to buff;
\* once the preamble is complete the Response is made and start() of its
\* stream runs up to its first await
HeaderRead ==
    /\ parsePc = "headers"
    /\ \E k \in 1..Len(wire) :
          LET b == buff \o SubSeq(wire, 1, k)
              headerEnd == parseHttpHeaders(b)
              data == SubSeq(b, headerEnd + 4, Len(b))
              contentLength == IF framing.kind = "length" THEN framing.length ELSE 0
              chunked == readChunks(data, 0, << >>)
          IN  /\ wire' = SubSeq(wire, k + 1, Len(wire))
              /\ IF headerEnd = 0
                 THEN /\ buff' = b
                      /\ UNCHANGED << parsePc, responseBody, bodyReceived, socketReleased,
                                      size >>
                 ELSE IF framing.kind = "chunked"
                 THEN /\ buff' = chunked.buff
                      /\ size' = chunked.size
                      /\ responseBody' = chunked.out
                      /\ bodyReceived' = bodyReceived
                      /\ IF chunked.at = "end"
                         THEN parsePc' = "closed" /\ socketReleased' = socketReleased + 1
                         ELSE parsePc' = chunked.at /\ socketReleased' = socketReleased
                 ELSE /\ buff' = b
                      /\ size' = size
                      /\ responseBody' = data
                      /\ bodyReceived' = Len(data)
                      /\ IF Len(data) < contentLength
                         THEN parsePc' = "body" /\ socketReleased' = socketReleased
                         ELSE parsePc' = "closed" /\ socketReleased' = socketReleased + 1
    /\ UNCHANGED << wireBody, chunks, framing, bodyCancelled, request, requestWritten >>
    /\ UNCHANGED << engineState, gatewayVars, relayVars, retryVars, sseVars >>

\* the read of the header loop resolves with done: "Unable to parse response
\* headers" is thrown, the catch releases the socket
HeaderEof ==
    /\ parsePc = "headers"
    /\ wire = << >>
    /\ parsePc' = "failed"
    /\ socketReleased' = socketReleased + 1
    /\ UNCHANGED << wire, wireBody, chunks, framing, buff, responseBody, bodyReceived,
                    bodyCancelled, size, request, requestWritten >>
    /\ UNCHANGED << engineState, gatewayVars, relayVars, retryVars, sseVars >>

\* a read of the body resolves with bytes.  Without chunking they are counted
\* and enqueued; with chunking they are added to the buff of readChunks and
\* the chunks now complete are enqueued.  enqueue and close throw on a
\* cancelled stream, and the finally releases the socket
BodyRead ==
    /\ parsePc \in {"body", "chunkSize", "chunkData"}
    /\ \E k \in 1..Len(wire) :
          LET value == SubSeq(wire, 1, k)
              chunked == readChunks(buff \o value, size, << >>)
          IN  /\ wire' = SubSeq(wire, k + 1, Len(wire))
              /\ IF parsePc = "body"
                 THEN /\ bodyReceived' = bodyReceived + k
                      /\ UNCHANGED << buff, size >>
                      /\ IF bodyCancelled
                         THEN /\ parsePc' = "errored"
                              /\ responseBody' = responseBody
                              /\ socketReleased' = socketReleased + 1
                         ELSE /\ responseBody' = responseBody \o value
                              /\ IF bodyReceived + k < framing.length
                                 THEN parsePc' = "body" /\ socketReleased' = socketReleased
                                 ELSE parsePc' = "closed" /\ socketReleased' = socketReleased + 1
                 ELSE /\ bodyReceived' = bodyReceived
                      /\ buff' = chunked.buff
                      /\ size' = chunked.size
                      /\ IF bodyCancelled /\ (chunked.out # << >> \/ chunked.at = "end")
                         THEN /\ parsePc' = "errored"
                              /\ responseBody' = responseBody
                              /\ socketReleased' = socketReleased + 1
                         ELSE /\ responseBody' = responseBody \o chunked.out
                              /\ IF chunked.at = "end"
                                 THEN parsePc' = "closed" /\ socketReleased' = socketReleased + 1
                                 ELSE parsePc' = chunked.at /\ socketReleased' = socketReleased
    /\ UNCHANGED << wireBody, chunks, framing, bodyCancelled, request, requestWritten >>
    /\ UNCHANGED << engineState, gatewayVars, relayVars, retryVars, sseVars >>

\* the upstream closed the connection: a read of the body resolves with done.
\* The body loop and the search of a size line end, and the stream is closed
\* (close throws on a cancelled stream); inside a chunk "Unexpected EOF in
\* chunked encoding" is thrown.  The finally releases the socket
BodyEof ==
    /\ parsePc \in {"body", "chunkSize", "chunkData"}
    /\ wire = << >>
    /\ parsePc' = IF bodyCancelled \/ parsePc = "chunkData" THEN "errored" ELSE "closed"
    /\ socketReleased' = socketReleased + 1
    /\ UNCHANGED << wire, wireBody, chunks, framing, buff, responseBody, bodyReceived,
                    bodyCancelled, size, request, requestWritten >>
    /\ UNCHANGED << engineState, gatewayVars, relayVars, retryVars, sseVars >>

\* a read of the body rejects: ctrl.error, and the finally releases the
\* socket
BodyReadError ==
    /\ parsePc \in {"body", "chunkSize", "chunkData"}
    /\ parsePc' = "errored"
    /\ socketReleased' = socketReleased + 1
    /\ UNCHANGED << wire, wireBody, chunks, framing, buff, responseBody, bodyReceived,
                    bodyCancelled, size, request, requestWritten >>
    /\ UNCHANGED << engineState, gatewayVars, relayVars, retryVars, sseVars >>

\* the caller cancels the body of the Response (reader.cancel()): the stream
\* has no cancel callback, so nothing of the parser runs
CallerCancels ==
    /\ parsePc \in {"body", "chunkSize", "chunkData", "closed"}
    /\ ~bodyCancelled
    /\ bodyCancelled' = TRUE
    /\ UNCHANGED << wire, wireBody, chunks, framing, buff, parsePc, responseBody,
                    bodyReceived, socketReleased, size, request, requestWritten >>
    /\ UNCHANGED << engineState, gatewayVars, relayVars, retryVars, sseVars >>

(***************************************************************************)
(* The continuation body: GeminiHandler.buildRetryRequestBody and          *)
(* detectLanguage.  A text is a sequence of characters, a character is     *)
(* named by what the patterns of detectLanguage see of it: its script      *)
(* ("zh", "ja", "ko", "ar", "ru"), an accented Latin letter by its name,   *)
(* or "a" for any other character.                                         *)
(***************************************************************************)
\* GEMINI_CONFIG.retry_prompts as the module is loaded: each prompt is named
\* by its first words or its language
DefaultRetryPrompts ==
    [en |-> "Continue exactly", zh |-> "retry prompt zh", ja |-> "retry prompt ja", ko |-> "retry prompt ko",
     es |-> "Continua exactamente", fr |-> "Continuez", de |-> "Fahren Sie",
     default |-> "Continue from"]

\* mutant: the first script of the order whose count exceeds a tenth, also
\* in a short text
detectLanguage_FirstOverTenth(text) ==
    LET count(lang) == Cardinality({ i \in 1..Len(text) : text[i] = lang })
        patterns == << "zh", "ja", "ko", "ar", "ru" >>
        over == { i \in 1..5 : 10 * count(patterns[i]) > Len(text) }
        has(set) == \E i \in 1..Len(text) : text[i] \in set
    IN  IF over # {} THEN patterns[CHOOSE i \in over : \A j \in over : i <= j]
        ELSE IF has({"a-grave", "a-umlaut", "u-umlaut", "e-acute", "i-acute", "n-tilde", "a-tilde"})
        THEN IF has({"a-grave", "c-cedilla", "e-acute", "u-umlaut"}) THEN "fr"
             ELSE IF has({"a-umlaut", "u-umlaut"}) THEN "de"
             ELSE IF has({"a-acute", "e-acute", "i-acute", "n-tilde", "inverted-question"}) THEN "es"
             ELSE "en"
        ELSE "en"

detectLanguage(text) ==
    LET count(lang) == Cardinality({ i \in 1..Len(text) : text[i] = lang })
        patterns == << "zh", "ja", "ko", "ar", "ru" >>
        maxCount == CHOOSE c \in { count(patterns[i]) : i \in 1..5 } :
                        \A i \in 1..5 : count(patterns[i]) <= c
        first == CHOOSE i \in 1..5 :
                    /\ count(patterns[i]) = maxCount
                    /\ \A j \in 1..(i - 1) : count(patterns[j]) < maxCount
        has(set) == \E i \in 1..Len(text) : text[i] \in set
    IN  IF Len(text) < 10 THEN "en"
        ELSE IF maxCount > 0 /\ 10 * maxCount > Len(text) THEN patterns[first]
        ELSE IF has({"a-grave", "a-umlaut", "u-umlaut", "e-acute", "i-acute", "n-tilde", "a-tilde"})
        THEN IF has({"a-grave", "c-cedilla", "e-acute", "u-umlaut"}) THEN "fr"
             ELSE IF has({"a-umlaut", "u-umlaut"}) THEN "de"
             ELSE IF has({"a-acute", "e-acute", "i-acute", "n-tilde", "inverted-question"}) THEN "es"
             ELSE "en"
        ELSE "en"

\* mutant: the two messages are put after the first user message
buildRetryRequestBody_AfterFirstUser(originalBody, accText) ==
    LET contents == IF originalBody.hasContents THEN originalBody.contents ELSE << >>
        users == { i \in 1..Len(contents) : contents[i].role = "user" }
        firstUserIndex == IF users = {} THEN 0
                          ELSE CHOOSE i \in users : \A j \in users : i <= j
        detectedLang == detectLanguage(accText)
        retryPrompt == IF detectedLang \in DOMAIN retry_prompts
                       THEN retry_prompts[detectedLang] ELSE retry_prompts["default"]
        historyMessages == << [role |-> "model", text |-> accText],
                      [role |-> "user", text |-> << retryPrompt >>] >>
    IN  [hasContents |-> TRUE,
         contents |-> IF firstUserIndex # 0
                      THEN SubSeq(contents, 1, firstUserIndex) \o historyMessages
                               \o SubSeq(contents, firstUserIndex + 1, Len(contents))
                      ELSE contents \o historyMessages]

\* a body is its `contents`; a message is its role and the text of its part
buildRetryRequestBody(originalBody, accText) ==
    LET contents == IF originalBody.hasContents THEN originalBody.contents ELSE << >>
        users == { i \in 1..Len(contents) : contents[i].role = "user" }
        lastUserIndex == IF users = {} THEN 0
                         ELSE CHOOSE i \in users : \A j \in users : j <= i
        detectedLang == detectLanguage(accText)
        retryPrompt == IF detectedLang \in DOMAIN retry_prompts
                       THEN retry_prompts[detectedLang] ELSE retry_prompts["default"]
        historyMessages == << [role |-> "model", text |-> accText],
                      [role |-> "user", text |-> << retryPrompt >>] >>
    IN  [hasContents |-> TRUE,
         contents |-> IF lastUserIndex # 0
                      THEN SubSeq(contents, 1, lastUserIndex) \o historyMessages
                               \o SubSeq(contents, lastUserIndex + 1, Len(contents))
                      ELSE contents \o historyMessages]

\* mutant: the messages are spliced into the body of the request itself
OriginalAfterBuild_Aliased(originalBody, built) == built

\* the body of the request once buildRetryRequestBody has returned `built`:
\* the splice and the push are made on a JSON copy of it
OriginalAfterBuild(originalBody, built) == originalBody

\* no request with a continuation is being handled
RetryBodyIdle ==
    /\ originalRequestBody = [hasContents |-> FALSE, contents |-> << >>]
    /\ retryText = << >>
    /\ retryBody = [hasContents |-> FALSE, contents |-> << >>]
    /\ retryBuilds = 0
    /\ retry_prompts = DefaultRetryPrompts
    /\ env = [GEMINI_RETRY_PROMPT_CN |-> "null", GEMINI_RETRY_PROMPT_EN |-> "null"]

\* handleRequest of the next request, which carries the same body, in the
\* same isolate: ConfigManager.updateConfigFromEnv(env), then a handler is
\* constructed whose config shares retry_prompts with GEMINI_CONFIG
updateConfigFromEnv ==
    /\ \E e \in [GEMINI_RETRY_PROMPT_CN : {"null", "custom prompt zh"},
                 GEMINI_RETRY_PROMPT_EN : {"null", "custom prompt en"}] :
          /\ env' = e
          /\ retry_prompts' =
                [retry_prompts EXCEPT
                    !.zh = IF e.GEMINI_RETRY_PROMPT_CN # "null"
                           THEN e.GEMINI_RETRY_PROMPT_CN ELSE @,
                    !.en = IF e.GEMINI_RETRY_PROMPT_EN # "null"
                           THEN e.GEMINI_RETRY_PROMPT_EN ELSE @]
    /\ retryText' = << >>
    /\ retryBody' = [hasContents |-> FALSE, contents |-> << >>]
    /\ retryBuilds' = 0
    /\ UNCHANGED originalRequestBody
    /\ UNCHANGED << engineState, gatewayVars, relayVars, parseVars, sseVars >>

\* `const retryBody = this.buildRetryRequestBody(originalRequestBody, accumulatedText)`
\* of one retry; the text is short, of one script, of two scripts, or Latin
\* with one accented letter
BuildRetryBody ==
    /\ retryBuilds < MaxBuilds
    /\ \E text \in { << >>, [i \in 1..5 |-> "zh"], [i \in 1..10 |-> "a"], [i \in 1..10 |-> "zh"] }
                   \cup { [i \in 1..10 |-> IF i = 1 THEN c ELSE "a"] :
                            c \in {"ru", "u-umlaut", "a-umlaut", "n-tilde", "a-tilde",
                                   "c-cedilla", "a-acute"} }
                   \cup { [i \in 1..10 |-> IF i <= 2 THEN c[1] ELSE IF i <= 5 THEN c[2] ELSE "a"] :
                            c \in { << "zh", "ja" >>, << "ko", "ko" >>, << "ru", "ar" >> } }
                   \cup { [i \in 1..10 |-> IF i <= 2 THEN "ja" ELSE IF i <= 4 THEN "ko" ELSE "a"] } :
          /\ retryText' = text
          /\ retryBody' = buildRetryRequestBody(originalRequestBody, text)
          /\ originalRequestBody' = OriginalAfterBuild(originalRequestBody, retryBody')
    /\ retryBuilds' = retryBuilds + 1
    /\ UNCHANGED << retry_prompts, env >>
    /\ UNCHANGED << engineState, gatewayVars, relayVars, parseVars, sseVars >>

(***************************************************************************)
(* The line iterator: GeminiHandler.sseLineIterator.  The body is ASCII, so *)
(* the decoder turns each byte into the character of that code; a byte is   *)
(* a letter (97), a space (32), CR (13) or LF (10).                         *)
(***************************************************************************)
\* text.split(/\r?\n/)
RECURSIVE split(_)
split(text) ==
    LET lfs == { i \in 1..Len(text) : text[i] = 10 }
        lf == CHOOSE i \in lfs : \A j \in lfs : i <= j
        stop == IF lf > 1 /\ text[lf - 1] = 13 THEN lf - 2 ELSE lf - 1
    IN  IF lfs = {} THEN << text >>
        ELSE << SubSeq(text, 1, stop) >> \o split(SubSeq(text, lf + 1, Len(text)))

\* no body is being iterated
SseIdle ==
    /\ sseWire = << >>
    /\ sseStream = << >>
    /\ buffer = << >>
    /\ yielded = << >>
    /\ ssePc = "idle"

\* mutant: the unterminated end of a read is not kept for the next read
SseRead_FragmentDropped ==
    /\ ssePc = "read"
    /\ \E k \in 1..Len(sseWire) :
          LET lines == split(buffer \o SubSeq(sseWire, 1, k))
              NonBlank(line) == \E i \in 1..Len(line) : line[i] \notin {32, 13, 10}
          IN  /\ sseWire' = SubSeq(sseWire, k + 1, Len(sseWire))
              /\ buffer' = << >>
              /\ yielded' = yielded \o SelectSeq(lines, NonBlank)
    /\ UNCHANGED << sseStream, ssePc >>
    /\ UNCHANGED << engineState, gatewayVars, relayVars, parseVars, retryVars >>

\* reader.read() resolves with bytes: they are decoded onto buffer, buffer is
\* split, its last piece is kept as the new buffer and the other pieces that
\* are not blank are yielded
SseRead ==
    /\ ssePc = "read"
    /\ \E k \in 1..Len(sseWire) :
          LET lines == split(buffer \o SubSeq(sseWire, 1, k))
              NonBlank(line) == \E i \in 1..Len(line) : line[i] \notin {32, 13, 10}
          IN  /\ sseWire' = SubSeq(sseWire, k + 1, Len(sseWire))
              /\ buffer' = lines[Len(lines)]
              /\ yielded' = yielded \o SelectSeq(SubSeq(lines, 1, Len(lines) - 1), NonBlank)
    /\ UNCHANGED << sseStream, ssePc >>
    /\ UNCHANGED << engineState, gatewayVars, relayVars, parseVars, retryVars >>

\* reader.read() resolves with done: `if (buffer.trim()) yield buffer`
SseEof ==
    /\ ssePc = "read"
    /\ sseWire = << >>
    /\ yielded' = IF \E i \in 1..Len(buffer) : buffer[i] \notin {32, 13, 10}
                  THEN Append(yielded, buffer) ELSE yielded
    /\ ssePc' = "done"
    /\ UNCHANGED << sseWire, sseStream, buffer >>
    /\ UNCHANGED << engineState, gatewayVars, relayVars, parseVars, retryVars >>

(***************************************************************************)
(* Specifications                                                          *)
(***************************************************************************)
\* a continuation session under the configuration of the source; the
\* upstream ends its lines with LF
Init ==
    /\ geminiConfig = GEMINI_CONFIG
    /\ eol = << LF >>
    /\ SessionStart
    /\ GatewayIdle
    /\ RelayIdle
    /\ ParseIdle
    /\ RetryBodyIdle
    /\ SseIdle

Next ==
    \/ HandleBadRequestBody
    \/ HandleInitialFailure
    \/ HandleInitialSuccess
    \/ ReadLine
    \/ ReadEnd
    \/ ReadError
    \/ WriteLineDone
    \/ WriteLineFailed
    \/ WriteRetryLimitErrorDone
    \/ WriteRetryLimitErrorFailed
    \/ RetryDelayElapsed
    \/ RetryResponseNonRetryable
    \/ RetryResponseFailed
    \/ RetryResponseOk
    \/ WriteUpstreamErrorDone
    \/ WriteUpstreamErrorFailed
    \/ WriteNetworkErrorDone
    \/ WriteNetworkErrorFailed
    \/ BackoffElapsed
    \/ ClientDisconnect

Spec == Init /\ [][Next]_vars

\* the same engine under either retry limit of interest and either line
\* terminator of the upstream
InitAnyConfig ==
    /\ geminiConfig \in { GEMINI_CONFIG,
                          [GEMINI_CONFIG EXCEPT !.max_consecutive_retries = 0] }
    /\ eol \in Eols
    /\ SessionStart
    /\ GatewayIdle
    /\ RelayIdle
    /\ ParseIdle
    /\ RetryBodyIdle
    /\ SseIdle

SpecAnyConfig == InitAnyConfig /\ [][Next]_vars

\* every read, write, dispatch and timer of a session settles: a step the
\* engine waits for is taken
FairSpec == Spec /\ WF_vars(Next)

\* no continuation session is running
EngineIdle ==
    /\ geminiConfig = GEMINI_CONFIG
    /\ eol = << LF >>
    /\ SessionStart

\* one request to the gateway, under any configuration
InitGateway ==
    /\ req \in Requests
    /\ config \in Configs
    /\ gwPc = "route"
    /\ route = "none"
    /\ gwResponse = NoResponse
    /\ connections = << >>
    /\ socketError = NoError
    /\ fetchError = NoError
    /\ EngineIdle
    /\ RelayIdle
    /\ ParseIdle
    /\ RetryBodyIdle
    /\ SseIdle

NextGateway ==
    \/ RouteRequest
    \/ SocketResolved
    \/ SocketFailed
    \/ FallbackResolved
    \/ FallbackFailed
    \/ FetchResolved
    \/ FetchFailed
    \/ WebSocketAccepted
    \/ WebSocketFailed

SpecGateway == InitGateway /\ [][NextGateway]_vars

\* one relay session
InitRelaySession ==
    /\ InitRelay
    /\ EngineIdle
    /\ GatewayIdle
    /\ ParseIdle
    /\ RetryBodyIdle
    /\ SseIdle

NextRelay ==
    \/ connectWebSocket
    \/ PumpFrame
    \/ PongSettled
    \/ PumpEnd
    \/ messageHandler
    \/ closeHandler
    \/ errorHandler
    \/ TimerExpired

SpecRelay == InitRelaySession /\ [][NextRelay]_vars

\* connectHttp has connected the socket and is about to write the request, a
\* GET without a body or a POST or PUT with or without one; the upstream
\* will send a whole preamble and wireBody (a chunked body whole or without
\* its last four bytes), or close before the preamble is complete
InitParse ==
    /\ request \in
          { [method |-> "GET", hasBody |-> FALSE, byteLength |-> 0, contentLength |-> -1] } \cup
          { [method |-> m, hasBody |-> b, byteLength |-> n, contentLength |-> h] :
               m \in {"POST", "PUT"}, b \in BOOLEAN, n \in {0, 2}, h \in {-1, 0, 2} }
    /\ request.hasBody \/ request.byteLength = 0
    /\ request.contentLength \in {-1, request.byteLength}
    /\ requestWritten = [contentLength |-> -1, bodyLength |-> 0]
    /\ chunks \in UNION { [1..n -> { << 97 >>, << 13, 10 >>, << 48, 13, 10, 13, 10 >> }] :
                            n \in 0..MaxChunks }
    /\ framing \in { [kind |-> "none", length |-> 0], [kind |-> "chunked", length |-> 0] }
                   \cup { [kind |-> "length", length |-> n] : n \in 0..MaxBody }
    /\ IF framing.kind = "chunked"
       THEN wireBody \in { ChunkedBody(chunks),
                           SubSeq(ChunkedBody(chunks), 1, Len(ChunkedBody(chunks)) - 4) }
       ELSE /\ chunks = << >>
            /\ wireBody \in { [i \in 1..n |-> 96 + i] : n \in 0..MaxBody }
    /\ wire \in { << 72, 13, 10, 13, 10 >> \o wireBody, << 72, 13, 10 >> }
    /\ buff = << >>
    /\ size = 0
    /\ parsePc = "request"
    /\ responseBody = << >>
    /\ bodyReceived = 0
    /\ socketReleased = 0
    /\ bodyCancelled = FALSE
    /\ EngineIdle
    /\ GatewayIdle
    /\ RelayIdle
    /\ RetryBodyIdle
    /\ SseIdle

\* one response of the raw-socket transport
SpecParse ==
    /\ InitParse
    /\ [][WriteRequest \/ HeaderRead \/ HeaderEof \/ BodyRead \/ BodyEof \/ BodyReadError
             \/ CallerCancels]_vars

\* bytes the upstream has sent arrive; the upstream need not close the
\* connection
FairSpecParse ==
    SpecParse /\ WF_vars(WriteRequest) /\ WF_vars(HeaderRead) /\ WF_vars(BodyRead)

\* the request body of the client: no `contents`, or up to MaxContents
\* messages of any roles, the i-th with a text of i characters
InitRetryBody ==
    /\ originalRequestBody \in
          { [hasContents |-> FALSE, contents |-> << >>] } \cup
          { [hasContents |-> TRUE,
             contents |-> [i \in 1..n |-> [role |-> roles[i], text |-> [j \in 1..i |-> "a"]]]] :
               n \in 0..MaxContents, roles \in [1..MaxContents -> {"user", "model", "function"}] }
    /\ retryText = << >>
    /\ retryBody = [hasContents |-> FALSE, contents |-> << >>]
    /\ retryBuilds = 0
    /\ retry_prompts = DefaultRetryPrompts
    /\ env = [GEMINI_RETRY_PROMPT_CN |-> "null", GEMINI_RETRY_PROMPT_EN |-> "null"]
    /\ EngineIdle
    /\ GatewayIdle
    /\ RelayIdle
    /\ ParseIdle
    /\ SseIdle

\* the continuation bodies of the requests of one isolate; the first request
\* has an environment without retry prompts
SpecRetryBody == InitRetryBody /\ [][updateConfigFromEnv \/ BuildRetryBody]_vars

\* the iterator was called on the reader of a body of up to MaxStream bytes
InitSse ==
    /\ sseStream \in UNION { [1..n -> {97, 32, 13, 10}] : n \in 0..MaxStream }
    /\ sseWire = sseStream
    /\ buffer = << >>
    /\ yielded = << >>
    /\ ssePc = "read"
    /\ EngineIdle
    /\ GatewayIdle
    /\ RelayIdle
    /\ ParseIdle
    /\ RetryBodyIdle

\* one iteration of a body
SpecSse == InitSse /\ [][SseRead \/ SseEof]_vars

(***************************************************************************)
(* Properties                                                              *)
(***************************************************************************)
\* positions of downstream that hold a forwarded line
LineIndexes == { i \in 1..Len(downstream) : downstream[i].kind = "line" }

\* positions of downstream that hold an SSE error event
ErrorIndexes == { i \in 1..Len(downstream) : downstream[i].kind = "error" }

\* the number of forwarded lines among the first i chunks of downstream
LineRank(i) == Cardinality({ j \in LineIndexes : j <= i })

\* the states of the retry procedure, from the limit check to the next pass
RetryProcedure == {"write504", "delay", "dispatch", "writeUpstreamError", "write502",
                   "backoff"}

SessionOver == pc \in {"done", "supervised"}

\* the texts of the parts that carry a string text, concatenated in order
RECURSIVE ConcatTextParts(_)
ConcatTextParts(parts) ==
    IF parts = << >> THEN << >>
    ELSE (IF Head(parts).hasText THEN Head(parts).text ELSE << >>)
         \o ConcatTextParts(Tail(parts))

\* the text of candidates[0] of the lines arrived[1..n] that are data lines
\* with a candidate, concatenated in arrival order
RECURSIVE TextOfLines(_, _)
TextOfLines(lines, n) ==
    IF n = 0 THEN << >>
    ELSE TextOfLines(lines, n - 1)
         \o (IF lines[n].line.prefix = "data: " /\ lines[n].line.json = "candidate"
             THEN ConcatTextParts(lines[n].line.parts)
             ELSE << >>)

----
\* C1: the number of passes of the outer loop (inner-loop attempts) never
\* exceeds MAX_CONSECUTIVE_RETRIES + 1, i.e. 6.
C1_AttemptsBounded == attempts <= 5 + 1

C1_Witness ==
    /\ attempts = 6
    /\ pc = "done"
    /\ exitPath = "retry_limit"
    /\ dispatches = 5

----
\* C2: when an attempt ends in an interruption with consecutive_retries at
\* the limit, the engine issues the write of one error event with code 504
\* and status DEADLINE_EXCEEDED and never a retry; when that write went
\* through, the event is the last chunk downstream and the writer is closed.
C2_RetryLimitState ==
    /\ [][ /\ interruptionReason = "" /\ interruptionReason' # ""
              /\ consecutiveRetryCount >= 5
                 => /\ pc' = "write504"
                    /\ pendingChunk'.kind = "error"
                    /\ pendingChunk'.code = 504
                    /\ pendingChunk'.status = "DEADLINE_EXCEEDED"
                    /\ dispatches' = dispatches
           /\ pc = "write504" \/ exitPath = "retry_limit"
                 => /\ dispatches' = dispatches
                    /\ pc' \in {"write504", "done", "supervised"}
           /\ pc = "write504" /\ pc' = "done"
                 => /\ writerState' = "closed"
                    /\ exitPath' = "retry_limit"
                    /\ ErrorIndexes = {}
                    /\ downstream' = Append(downstream, ErrorEvent(504, "DEADLINE_EXCEEDED"))
         ]_vars
    /\ [](pc = "done" /\ exitPath = "retry_limit"
             => /\ writerState = "closed"
                /\ downstream[Len(downstream)] = ErrorEvent(504, "DEADLINE_EXCEEDED"))

C2_Witness ==
    /\ pc = "done"
    /\ exitPath = "retry_limit"
    /\ attempts = 6
    /\ arrived = << >>
    /\ downstream = << ErrorEvent(504, "DEADLINE_EXCEEDED") >>

----
\* C3: the forwarded lines are downstream in the order in which they arrived,
\* each was accepted during the pass in which it arrived, and the passes of
\* the chunks of downstream never decrease.
C3_ArrivalOrder ==
    /\ Len(writtenIn) = Len(downstream)
    /\ \A i \in LineIndexes :
          /\ LineRank(i) <= Len(arrived)
          /\ downstream[i].line = arrived[LineRank(i)].line
          /\ writtenIn[i] = arrived[LineRank(i)].attempt
    /\ \A i, j \in 1..Len(downstream) : i < j => writtenIn[i] <= writtenIn[j]
    /\ \A i, j \in 1..Len(arrived) : i < j => arrived[i].attempt <= arrived[j].attempt

C3_Witness ==
    /\ Len(downstream) = 2
    /\ LineIndexes = {1, 2}
    /\ downstream[1].line # downstream[2].line
    /\ writtenIn = << 1, 2 >>
    /\ attempts = 2

----
\* C4: every chunk that carries a line is the line as it arrived followed by
\* "\n\n"; what the engine has interpreted in this pass comes from lines it
\* has already forwarded, and the line whose finishReason it acted on is the
\* last line downstream when the retry is decided.
C4_ForwardBeforeInterpret ==
    /\ pc = "write" => pendingChunk = [kind |-> "line", line |-> currentLine, term |-> "\n\n"]
    /\ \A i \in LineIndexes :
          /\ downstream[i].term = "\n\n"
          /\ downstream[i].line = arrived[LineRank(i)].line
    /\ hasReceivedFinalAnswerContent
          => \E i \in LineIndexes :
                /\ writtenIn[i] = attempts
                /\ \E k \in 1..Len(downstream[i].line.parts) :
                      /\ downstream[i].line.parts[k].hasText
                      /\ ~downstream[i].line.parts[k].thought
    /\ hasReceivedToolCalls
          => \E i \in LineIndexes :
                /\ writtenIn[i] = attempts
                /\ \E k \in 1..Len(downstream[i].line.parts) :
                      downstream[i].line.parts[k].functionCall
    /\ finishReason # ""
          => \E i \in LineIndexes :
                /\ \A j \in LineIndexes : j <= i
                /\ writtenIn[i] = attempts
                /\ downstream[i].line.prefix = "data: "
                /\ downstream[i].line.finishReason = finishReason
    /\ interruptionReason \in {"STOP_WITHOUT_SUFFICIENT_CONTENT", "FINISH_ABNORMAL"}
          => finishReason # ""

C4_Witness ==
    /\ interruptionReason = "STOP_WITHOUT_SUFFICIENT_CONTENT"
    /\ pc = "delay"
    /\ Len(downstream) = 2
    /\ downstream[2].kind = "line"
    /\ downstream[2].line.finishReason = "STOP"
    /\ writtenIn[2] = attempts

----
\* C5: accumulated_text is the concatenation, in arrival order, of the string
\* text parts (thought or not) of every line interpreted so far, over all
\* passes; the interpreted lines are the arrived lines whose write resolved.
C5_AccumulatedText ==
    accumulatedText = TextOfLines(arrived, Cardinality(LineIndexes))

C5_Witness ==
    /\ attempts = 2
    /\ Len(arrived) = 2
    /\ arrived[1].attempt = 1
    /\ arrived[2].attempt = 2
    /\ accumulatedText = TextShort \o TextHundred
    /\ pc = "done"

----
\* C6: once a candidate with finishReason STOP was interpreted: with a
\* non-thought text part or a tool call seen in this pass the writer is closed
\* and nothing is retried; else with accumulated_text longer than 100
\* characters the same; else the interruption is
\* STOP_WITHOUT_SUFFICIENT_CONTENT, the reader is given up and the engine is
\* in the retry procedure.
C6_StopDecision ==
    finishReason = "STOP"
       => /\ readerCancelled
          /\ IF hasReceivedFinalAnswerContent \/ hasReceivedToolCalls
             THEN /\ pc = "done" /\ writerState = "closed"
                  /\ interruptionReason = "" /\ dispatches = consecutiveRetryCount
             ELSE IF Len(accumulatedText) > 100
             THEN /\ pc = "done" /\ writerState = "closed"
                  /\ interruptionReason = "" /\ dispatches = consecutiveRetryCount
             ELSE /\ interruptionReason = "STOP_WITHOUT_SUFFICIENT_CONTENT"
                  /\ \/ pc \in RetryProcedure
                     \/ SessionOver /\ exitPath \in {"retry_limit", "non_retryable",
                                                     "network_limit"}

\* a STOP after 100 characters of thought only is retried
C6_Witness ==
    /\ finishReason = "STOP"
    /\ Len(accumulatedText) = 100
    /\ interruptionReason = "STOP_WITHOUT_SUFFICIENT_CONTENT"
    /\ pc = "dispatch"

----
\* C7: once a candidate with finishReason MAX_TOKENS, TOOL_CODE, SAFETY or
\* RECITATION was interpreted the session is over: the writer is closed, no
\* retry is pending or made, no error event is downstream.
C7_TerminalFinishReason ==
    finishReason \in {"MAX_TOKENS", "TOOL_CODE", "SAFETY", "RECITATION"}
       => /\ pc = "done"
          /\ writerState = "closed"
          /\ closeCalls = 1
          /\ interruptionReason = ""
          /\ dispatches = consecutiveRetryCount
          /\ ErrorIndexes = {}
          /\ downstream[Len(downstream)].line.finishReason = finishReason

\* SAFETY with nothing received at all, in the second pass
C7_Witness ==
    /\ finishReason = "SAFETY"
    /\ accumulatedText = << >>
    /\ attempts = 2
    /\ pc = "done"

----
\* C8 (the claim as stated): after a write to the downstream writer was
\* rejected the reader is cancelled and the engine neither waits for a retry,
\* nor dispatches one, nor starts another pass.
C8_WriteFailureIsTerminal ==
    writeFailed
       => /\ readerCancelled
          /\ pc \notin {"delay", "dispatch", "backoff", "read", "write"}

----
\* C9 (the claim as stated): writer.close() is called at most once, nothing
\* is written after it, and every session that is over has closed the writer.
C9_ClosedExactlyOnce ==
    /\ closeCalls <= 1
    /\ writerState = "closed" => SessionOver /\ pendingChunk = NoChunk
    /\ SessionOver => closeCalls = 1

----
\* C10 (the claim as stated): when the engine's promise was rejected and the
\* supervisor has run, writer.close() has been called.
C10_SupervisorCloses ==
    pc = "supervised" => closeCalls >= 1

----
\* the exits of the engine that end the session with a failure, and the SSE
\* error event each of them writes
FailureExits == {"retry_limit", "non_retryable", "network_limit"}

FailureEvents(path) ==
    CASE path = "retry_limit" -> { ErrorEvent(504, "DEADLINE_EXCEEDED") }
      [] path = "network_limit" -> { ErrorEvent(502, "BAD_GATEWAY") }
      [] path = "non_retryable" ->
            { ErrorEvent(st, statusToGoogleStatus(st)) : st \in {400, 401, 403, 404, 429} }
      [] OTHER -> {}

\* C11: the response is 200 text/event-stream exactly when the initial
\* upstream response was 2xx with a body; a non-2xx initial response gives the
\* JSON error response with the upstream's status; a stream exists only
\* behind a 200; a session that ended with a failure and closed its writer has
\* exactly one SSE error event downstream, the one of that failure, as the
\* last chunk; a session that ended without failure has none; and each
\* failure exit is entered by issuing the write of its error event.
C11_InBandErrors ==
    /\ pc # "start"
          => /\ (response.status = 200 /\ response.contentType = "text/event-stream; charset=utf-8")
                   <=> (ResponseOk(initialResponse.status) /\ initialResponse.body)
             /\ response.status = 200
                   <=> (ResponseOk(initialResponse.status) /\ initialResponse.body)
    /\ initialResponse.status # 0 /\ ~ResponseOk(initialResponse.status)
          => /\ response.status = initialResponse.status
             /\ response.contentType = "application/json; charset=utf-8"
             /\ writerState = "none"
    /\ writerState # "none" => response.status = 200
    /\ pc = "done" /\ exitPath \in FailureExits
          => /\ writerState = "closed"
             /\ closeCalls = 1
             /\ ErrorIndexes = { Len(downstream) }
             /\ downstream[Len(downstream)] \in FailureEvents(exitPath)
    /\ pc = "done" /\ exitPath \notin FailureExits => ErrorIndexes = {}
    /\ pc \notin {"done", "supervised"} => ErrorIndexes = {}
    /\ pc \in {"write504", "writeUpstreamError", "write502"}
          => /\ pendingChunk.kind = "error"
             /\ closeCalls = 0
    /\ pc = "supervised" => writeFailed /\ ErrorIndexes = {}

\* a 429 on a retry after a 200 with one forwarded line
C11_Witness ==
    /\ response = EventStreamResponse
    /\ pc = "done"
    /\ exitPath = "non_retryable"
    /\ Len(downstream) = 2
    /\ downstream[1].kind = "line"
    /\ downstream[2] = ErrorEvent(429, "RESOURCE_EXHAUSTED")
    /\ writerState = "closed"

----
\* the bytes of the separator of a forwarded line
TermBytes(term) ==
    CASE term = "\n\n" -> << LF, LF >>
      [] term = "\n" -> << LF >>
      [] OTHER -> << >>

\* the bytes written downstream: a line is one token, followed by the bytes
\* of its separator; an error event is one token
RECURSIVE DownstreamBytes(_)
DownstreamBytes(ds) ==
    IF ds = << >> THEN << >>
    ELSE (IF Head(ds).kind = "line"
          THEN << Head(ds).line >> \o TermBytes(Head(ds).term)
          ELSE << Head(ds) >>)
         \o DownstreamBytes(Tail(ds))

\* the bytes the upstream sent for the lines that arrived: every line is an
\* event of its own, ended by the terminator e and a blank line
RECURSIVE UpstreamBytes(_, _)
UpstreamBytes(lines, e) ==
    IF lines = << >> THEN << >>
    ELSE << Head(lines).line >> \o e \o e \o UpstreamBytes(Tail(lines), e)

\* C12 (the claim as stated): with max_consecutive_retries = 0 no
\* continuation is dispatched, and once the session is over with every write
\* accepted the bytes written downstream are the bytes received from the
\* upstream, followed by at most one SSE error event, and by none when the
\* stream ended in success.
C12_TransparentProxy ==
    geminiConfig.max_consecutive_retries = 0
       => /\ dispatches = 0
          /\ attempts <= 1
          /\ SessionOver /\ ~writeFailed
                => LET up == UpstreamBytes(arrived, eol)
                       down == DownstreamBytes(downstream)
                   IN  IF exitPath \in FailureExits
                       THEN /\ Len(down) = Len(up) + 1
                            /\ SubSeq(down, 1, Len(up)) = up
                            /\ down[Len(down)].kind = "error"
                       ELSE down = up

----
\* the messages of SocketErrorMessages that contain, in any letter case, one
\* of the keywords: "Network connection lost." (network, connection, connect,
\* lost) and "ETIMEDOUT" (etimedout)
EligibleMessages == { MsgConnectionLost, MsgTimedOut }

\* the raw-socket attempt of the selector has failed
SocketAttemptFailed == socketError # NoError

\* C13 (the claim as stated): after a raw-socket failure that is not eligible
\* no high-level attempt is made and an error response is returned.
C13_FallbackOnlyIfEligible ==
    SocketAttemptFailed /\ socketError \notin EligibleMessages
       => /\ connections = << "socket" >>
          /\ gwPc = "returned"
          /\ gwResponse.status >= 500

\* C13 (amended): with AGGRESSIVE_FALLBACK off the selector makes the
\* high-level attempt exactly after an eligible raw-socket failure, and a
\* failure of any other kind returns a 500 error response with no high-level
\* attempt; with AGGRESSIVE_FALLBACK on (the default) every raw-socket failure
\* is followed by the high-level attempt.  Without a raw-socket failure the
\* selector makes no high-level attempt.
C13_FallbackRule ==
    /\ SocketAttemptFailed
          => IF config.AGGRESSIVE_FALLBACK \/ socketError \in EligibleMessages
             THEN /\ connections = << "socket", "fetch" >>
                  /\ gwPc \in {"fallback", "returned"}
             ELSE /\ connections = << "socket" >>
                  /\ gwPc = "returned"
                  /\ gwResponse.status = 500
                  /\ gwResponse.contentType = "application/json; charset=utf-8"
    /\ ~SocketAttemptFailed
          => connections \in { << >>, << "socket" >>, << "fetch" >>, << "websocket" >> }

\* a protocol parse failure with AGGRESSIVE_FALLBACK off
C13_Witness ==
    /\ ~config.AGGRESSIVE_FALLBACK
    /\ socketError = MsgParse
    /\ connections = << "socket" >>
    /\ gwPc = "returned"
    /\ gwResponse = SocketErrorResponse(MsgParse)

----
\* C14 (the claim as stated): when the raw-socket attempt and the fallback
\* high-level attempt both failed, the caller of the selector gets the 502
\* whose details hold both failure records.
C14_BothFailureRecords ==
    (/\ SocketAttemptFailed
     /\ fetchError # NoError
     /\ gwPc = "returned"
     /\ route # "gemini")
       => gwResponse = BothFailedResponse(socketError, fetchError)

----
\* C15 (the claim as stated): a request whose path is neither / nor /test and
\* whose first segment is neither a preset id nor the token opens no upstream
\* connection, and its response is 401.
C15_UnauthorizedPath ==
    (/\ gwPc # "route" /\ gwPc # "idle"
     /\ req.parts \notin { << >>, << "test" >> }
     /\ req.parts[1] \notin PresetIds \cup { config.AUTH_TOKEN })
       => /\ connections = << >>
          /\ gwPc = "returned"
          /\ gwResponse.status = 401

\* C15 (amended): a request with a first path segment that is neither `test`
\* nor a preset id nor the token opens no upstream connection, and its
\* response is 401.
C15_UnauthorizedSegment ==
    (/\ gwPc # "route" /\ gwPc # "idle"
     /\ req.parts # << >>
     /\ req.parts[1] \notin PresetIds \cup { config.AUTH_TOKEN, "test" })
       => /\ connections = << >>
          /\ gwPc = "returned"
          /\ gwResponse.status = 401
          /\ route = "rejected"

\* a generic target without the token
C15_Witness ==
    /\ req.parts = << "https", "example.com" >>
    /\ gwPc = "returned"
    /\ gwResponse.status = 401
    /\ connections = << >>

----
\* the request names a preset route: without the token in front, or behind it
UnprefixedPreset == req.parts # << >> /\ req.parts[1] \in PresetIds

PrefixedPreset ==
    /\ Len(req.parts) >= 2
    /\ req.parts[1] = config.AUTH_TOKEN
    /\ req.parts[2] \in PresetIds

\* C16: once routed, a preset request without the token is, with
\* PRESET_AUTH_ENABLED off, handed to its handler (the Gemini handler or a
\* transport) and never answered 401 by the gateway's check; with
\* PRESET_AUTH_ENABLED on it is answered 401 and nothing is opened for it,
\* on every preset route, /gemini and WebSocket upgrades included.  A preset
\* request behind the token is handed to its handler either way.
C16_PresetAuth ==
    gwPc \notin {"idle", "route"}
       => /\ UnprefixedPreset /\ ~config.PRESET_AUTH_ENABLED
                => /\ route \in {"preset", "gemini"}
                   /\ gwResponse.status = 401 => connections # << >>
                   /\ ~req.upgrade /\ ~req.stream => connections # << >>
          /\ UnprefixedPreset /\ config.PRESET_AUTH_ENABLED
                => /\ route = "rejected"
                   /\ gwPc = "returned"
                   /\ gwResponse.status = 401
                   /\ connections = << >>
          /\ PrefixedPreset
                => /\ route \in {"preset", "gemini"}
                   /\ ~req.upgrade /\ ~req.stream => connections # << >>

\* a WebSocket upgrade on /gemini without the token, PRESET_AUTH_ENABLED on
C16_Witness ==
    /\ config.PRESET_AUTH_ENABLED
    /\ req.parts = << "gemini", "v1beta" >>
    /\ req.upgrade
    /\ gwPc = "returned"
    /\ gwResponse.status = 401
    /\ connections = << >>

----
\* C17 (the claim as stated): every response the gateway returns has the
\* header Access-Control-Allow-Origin: *.
C17_CorsOnEveryResponse ==
    gwPc = "returned" => gwResponse.cors

\* the payloads of the frames of `frames` that carry `opcode`, in order
PayloadsOf(frames, opcode) ==
    LET Carries(f) == f.opcode = opcode
        selected == SelectSeq(frames, Carries)
    IN  [i \in 1..Len(selected) |-> selected[i].payload]

C19_ReleasedOnce ==
    expired => \A r \in Resources : released[r] = 1

\* the frames written for the messages of `lens`
WrittenWithLength(lens) ==
    { upstreamWritten[i] : i \in { j \in 1..Len(upstreamWritten) :
                                       upstreamWritten[j].payload.len \in lens } }

\* the length a frame header announces
AnnouncedLength(header) ==
    IF Len(header) = 2 THEN header[2] - 128 ELSE header[3] * 256 + header[4]

\* the message of 65 536 bytes was rejected: nothing was written for it, and
\* the handler ended in cleanup()
Rejected ==
    /\ WrittenWithLength({65536}) = {}
    /\ \A i \in 1..Len(messages) : messages[i].len = 65536 => released["ws"] > 0

\* C20, as stated: payloads of 125, 126 and 127 bytes are packed with the
\* one-byte length form, 65 535 with the two-byte form, 65 536 is rejected.
C20_OneByteUpTo127 ==
    /\ \A f \in WrittenWithLength({125, 126, 127}) : Len(f.header) = 2
    /\ \A f \in WrittenWithLength({65535}) : Len(f.header) = 4
    /\ Rejected

\* C20, amended: a payload of 125 bytes is packed with the one-byte length
\* form; payloads of 126, 127 and 65 535 bytes with the two-byte form
\* (length byte 126, then the length in two bytes); 65 536 is rejected.
C20_LengthForms ==
    /\ \A f \in WrittenWithLength({125}) :
          Len(f.header) = 2 /\ AnnouncedLength(f.header) = 125
    /\ \A f \in WrittenWithLength({126, 127, 65535}) :
          /\ Len(f.header) = 4
          /\ f.header[2] = 128 + 126
          /\ AnnouncedLength(f.header) = f.payload.len
    /\ Rejected

\* a message of 126 bytes was packed and written
C20_Witness ==
    /\ Len(messages) = 1
    /\ messages[1].len = 126
    /\ upstreamWritten = << packTextFrame(messages[1]) >>


----
\* C21: with neither chunked encoding nor Content-Length, the body of a
\* Response whose stream was closed is every byte the upstream sent after
\* the preamble.
C21_ConsumeToEof ==
    (framing.kind = "none" /\ parsePc = "closed") => responseBody = wireBody

----
\* C22: with a Content-Length of n, the body of a Response whose stream was
\* closed is the first n bytes the upstream sent after the preamble (all of
\* them when it sent fewer and closed), however the bytes came in reads.
C22_ExactlyContentLength ==
    (framing.kind = "length" /\ parsePc = "closed") =>
        responseBody = SubSeq(wireBody, 1, IF framing.length < Len(wireBody)
                                           THEN framing.length ELSE Len(wireBody))

----
\* C23: the socket is not released while the stream of the Response still
\* reads the body, it is released when the stream has been closed, and once
\* the caller has cancelled the body the socket is eventually released.
C23_SocketLifetime ==
    /\ [](parsePc = "body" => socketReleased = 0)
    /\ [](parsePc = "closed" => socketReleased > 0)
    /\ (bodyCancelled ~> socketReleased > 0)

----
\* C24: the 502/BAD_GATEWAY event ends the session only when network_retries
\* exceeds MAX_NETWORK_RETRIES: the event is pending or written only with
\* the count above 3.
C24_OnlyAboveNetworkLimit ==
    (pc = "write502" \/ exitPath = "network_limit")
        => networkRetryCount > geminiConfig.max_network_retries

----
\* C25: consecutive_retries changes only in the step in which a retry
\* dispatch succeeds, and the step that follows a back-off starts no new
\* inner-loop attempt.
C25_CountsHandshakes ==
    [][ /\ consecutiveRetryCount' # consecutiveRetryCount
            => (pc = "dispatch" /\ pc' = "read")
        /\ pc = "backoff" => attempts' = attempts ]_vars

----
\* C26: once a retry dispatch has returned a non-retryable status, the engine
\* goes on only by writing the error event of that response and closing the
\* writer, and dispatches nothing; a retry dispatch that fails otherwise
\* adds one to network_retries.
C26_NonRetryableEnds ==
    [][ /\ (pc = "writeUpstreamError" /\ pc' # pc)
            => /\ pc' = "done"
               /\ exitPath' = "non_retryable"
               /\ downstream' = Append(downstream, pendingChunk)
               /\ writerState' = "closed"
               /\ dispatches' = dispatches
        /\ (pc = "dispatch" /\ pc' \in {"backoff", "write502"})
            => networkRetryCount' = networkRetryCount + 1 ]_vars

----
\* C27: the inner loop never reads a reader that was cancelled before, and
\* once the inner loop is left the reader it read is cancelled.
C27_ReaderOwnedOnce ==
    /\ pc = "read" => ~readerCancelled
    /\ pc \in RetryProcedure \cup {"done", "supervised"} => readerCancelled

----
\* the parts of candidates[0] of the lines interpreted in the current attempt
PartsOfAttempt ==
    UNION { { downstream[i].line.parts[j] : j \in 1..Len(downstream[i].line.parts) } :
              i \in { k \in LineIndexes :
                        writtenIn[k] = attempts /\ IsInterpreted(downstream[k].line) } }

\* C28: when a part interpreted in this attempt carries functionCall or
\* toolCode, saw_tool_calls is set, whether or not the part has a string
\* text; when one has a string text and not thought=true,
\* saw_final_answer_content is set.
C28_EveryToolPartSeen ==
    /\ (\E p \in PartsOfAttempt : p.functionCall) => hasReceivedToolCalls
    /\ (\E p \in PartsOfAttempt : p.hasText /\ ~p.thought) => hasReceivedFinalAnswerContent

----
\* C29: in the retry procedure the attempt just ended is classified: no
\* finishReason seen gives FETCH_ERROR, or DROP_DURING_TOOL_USE with a tool
\* call seen and DROP without; STOP gives STOP_WITHOUT_SUFFICIENT_CONTENT;
\* an unrecognised finishReason gives FINISH_ABNORMAL.  A session closed
\* without an error event has accepted a finishReason.
C29_Classified ==
    /\ pc \in RetryProcedure =>
          /\ interruptionReason # ""
          /\ finishReason \notin TerminalFinishReasons
          /\ finishReason = "" =>
                interruptionReason \in
                    {"FETCH_ERROR",
                     IF hasReceivedToolCalls THEN "DROP_DURING_TOOL_USE" ELSE "DROP"}
          /\ finishReason = "STOP" => interruptionReason = "STOP_WITHOUT_SUFFICIENT_CONTENT"
          /\ finishReason \notin {"", "STOP"} => interruptionReason = "FINISH_ABNORMAL"
    /\ (pc = "done" /\ exitPath \notin {"retry_limit", "non_retryable", "network_limit"}) =>
          /\ interruptionReason = ""
          /\ finishReason \in {"STOP"} \cup TerminalFinishReasons
          /\ finishReason = "STOP" =>
                \/ hasReceivedFinalAnswerContent
                \/ hasReceivedToolCalls
                \/ SufficientText(accumulatedText)

\* a stream with a tool call ended without a finishReason
C29_Witness ==
    /\ pc = "delay"
    /\ interruptionReason = "DROP_DURING_TOOL_USE"
    /\ hasReceivedToolCalls
    /\ finishReason = ""


----
\* C30: the continuation body is the original `contents` with two messages
\* put in right after the last message of role user, or at the end when
\* there is none: first a model message with the accumulated text, then a
\* user message with a retry prompt; taking the two out gives the original
\* `contents` back.
C30_InsertAfterLastUser ==
    retryBody.hasContents =>
        LET c == IF originalRequestBody.hasContents THEN originalRequestBody.contents
                 ELSE << >>
            r == retryBody.contents
            after == { i \in 0..Len(c) :
                         /\ i = 0 \/ c[i].role = "user"
                         /\ \A j \in (i + 1)..Len(c) : c[j].role # "user" }
            p == CHOOSE i \in after : i # 0 \/ after = {0}
            at == IF p = 0 THEN Len(c) ELSE p
        IN  /\ Len(r) = Len(c) + 2
            /\ r[at + 1] = [role |-> "model", text |-> retryText]
            /\ r[at + 2].role = "user"
            /\ r[at + 2].text \in { << retry_prompts[k] >> : k \in DOMAIN retry_prompts }
            /\ SubSeq(r, 1, at) \o SubSeq(r, at + 3, Len(r)) = c

\* two user messages and then a model message: the two messages were put
\* between the second and the third
C30_Witness ==
    /\ originalRequestBody.hasContents
    /\ Len(originalRequestBody.contents) = 3
    /\ originalRequestBody.contents[1].role = "user"
    /\ originalRequestBody.contents[2].role = "user"
    /\ originalRequestBody.contents[3].role = "model"
    /\ Len(retryText) = 10
    /\ Len(retryBody.contents) = 5
    /\ retryBody.contents[3].role = "model"
    /\ retryBody.contents[5] = originalRequestBody.contents[3]


----
----
\* the prompt of the last continuation body: the text of the user message
\* that follows the model message with the accumulated text
PromptUsed ==
    LET r == retryBody.contents
        at == CHOOSE i \in 1..(Len(r) - 1) :
                 /\ r[i] = [role |-> "model", text |-> retryText]
                 /\ r[i + 1].role = "user"
                 /\ Len(r[i + 1].text) = 1
                 /\ r[i + 1].text[1] \in { retry_prompts[k] : k \in DOMAIN retry_prompts }
    IN  r[at + 1].text[1]

\* C32 as stated: when the count of a script exceeds a tenth of the length of
\* the text, detectLanguage returns the first label of zh, ja, ko, ar, ru
\* whose count does; otherwise it returns fr, de, es or en.
C32_FirstOverTenth ==
    retryBuilds > 0 =>
        LET count(lang) == Cardinality({ i \in 1..Len(retryText) : retryText[i] = lang })
            patterns == << "zh", "ja", "ko", "ar", "ru" >>
            over == { i \in 1..5 : 10 * count(patterns[i]) > Len(retryText) }
        IN  IF over # {}
            THEN detectLanguage(retryText) = patterns[CHOOSE i \in over : \A j \in over : i <= j]
            ELSE detectLanguage(retryText) \in {"fr", "de", "es", "en"}

\* C32: detectLanguage returns en for a text of fewer than ten characters;
\* otherwise the label of zh, ja, ko, ar, ru with the largest count, the
\* first of them among equal counts, when that count exceeds a tenth of the
\* length; otherwise, for a text with a letter of the accented set, fr, de
\* or es by their letters in that order; and en in every other case.
C32_LargestOverTenth ==
    retryBuilds > 0 =>
        LET n == Len(retryText)
            count(lang) == Cardinality({ i \in 1..n : retryText[i] = lang })
            patterns == << "zh", "ja", "ko", "ar", "ru" >>
            top == { i \in 1..5 : \A j \in 1..5 : count(patterns[j]) <= count(patterns[i]) }
            first == CHOOSE i \in top : \A j \in top : i <= j
            has(set) == \E i \in 1..n : retryText[i] \in set
            result == detectLanguage(retryText)
        IN  /\ n < 10 => result = "en"
            /\ (n >= 10 /\ 10 * count(patterns[first]) > n) => result = patterns[first]
            /\ (n >= 10 /\ 10 * count(patterns[first]) <= n) =>
                  result = IF ~has({"a-grave", "a-umlaut", "u-umlaut", "e-acute", "i-acute",
                                    "n-tilde", "a-tilde"}) THEN "en"
                           ELSE IF has({"a-grave", "c-cedilla", "e-acute", "u-umlaut"}) THEN "fr"
                           ELSE IF has({"a-umlaut", "u-umlaut"}) THEN "de"
                           ELSE IF has({"a-acute", "e-acute", "i-acute", "n-tilde",
                                        "inverted-question"}) THEN "es"
                           ELSE "en"

\* a text with two Chinese and three Japanese characters in ten got the
\* Japanese prompt
C32_Witness ==
    /\ retryBuilds > 0
    /\ retryText = [i \in 1..10 |-> IF i <= 2 THEN "zh" ELSE IF i <= 5 THEN "ja" ELSE "a"]
    /\ PromptUsed = retry_prompts.ja

----
\* C38: the prompt of a continuation depends on the environment of its own
\* request only: a request whose environment sets no English (Chinese) retry
\* prompt continues an English (Chinese) text with the prompt of the source.
C38_OwnEnvironmentOnly ==
    retryBuilds > 0 =>
        /\ (env.GEMINI_RETRY_PROMPT_EN = "null" /\ detectLanguage(retryText) = "en")
              => PromptUsed = DefaultRetryPrompts.en
        /\ (env.GEMINI_RETRY_PROMPT_CN = "null" /\ detectLanguage(retryText) = "zh")
              => PromptUsed = DefaultRetryPrompts.zh


----
\* C33: whatever the reads the wire bytes of a whole chunked body arrive in,
\* the bytes enqueued are the payloads of its chunks in order: a prefix of
\* them while the body is read, all of them once the stream is closed, and
\* the stream is closed at the zero-size chunk, no later than two bytes
\* before the end of the wire.
C33_ChunksDecoded ==
    (framing.kind = "chunked" /\ wireBody = ChunkedBody(chunks)) =>
        LET RECURSIVE flat(_)
            flat(i) == IF i = 0 THEN << >> ELSE flat(i - 1) \o chunks[i]
            payloads == flat(Len(chunks))
        IN  /\ Len(responseBody) <= Len(payloads)
            /\ responseBody = SubSeq(payloads, 1, Len(responseBody))
            /\ parsePc = "closed" => (responseBody = payloads /\ Len(wire) <= 2)
            /\ parsePc \in {"chunkSize", "chunkData"} => wire # << >>

\* the first chunk was enqueued; a read ended between the CR and the LF that
\* end the second chunk, whose payload looks like the end of a chunked body
C33_Witness ==
    /\ framing.kind = "chunked"
    /\ chunks = << << 13, 10 >>, << 48, 13, 10, 13, 10 >> >>
    /\ wireBody = ChunkedBody(chunks)
    /\ parsePc = "chunkData"
    /\ size = 5
    /\ buff = << 48, 13, 10, 13, 10, 13 >>
    /\ responseBody = << 13, 10 >>

----
\* C36 as stated: the lines yielded at EOF are those of the whole body read
\* at once, and a last piece that is not empty is the last line yielded.
C36_FinalNonEmpty ==
    ssePc = "done" =>
        LET NonBlank(line) == \E i \in 1..Len(line) : line[i] \notin {32, 13, 10}
            pieces == split(sseStream)
            fragment == pieces[Len(pieces)]
        IN  /\ yielded = SelectSeq(pieces, NonBlank)
            /\ fragment # << >> => (yielded # << >> /\ yielded[Len(yielded)] = fragment)

\* C36: whatever the reads the bytes arrive in, the lines yielded so far and
\* those of what is still buffered or to come are together the lines of the
\* whole body read at once; no line yielded is blank or holds a LF; and at
\* EOF a last piece that is not blank is the last line yielded.
C36_SameLines ==
    LET NonBlank(line) == \E i \in 1..Len(line) : line[i] \notin {32, 13, 10}
        pieces == split(sseStream)
        fragment == pieces[Len(pieces)]
    IN  /\ ssePc = "read" =>
              yielded \o SelectSeq(split(buffer \o sseWire), NonBlank)
                  = SelectSeq(pieces, NonBlank)
        /\ ssePc = "done" =>
              /\ yielded = SelectSeq(pieces, NonBlank)
              /\ NonBlank(fragment) => (yielded # << >> /\ yielded[Len(yielded)] = fragment)
        /\ \A i \in 1..Len(yielded) :
              NonBlank(yielded[i]) /\ \A j \in 1..Len(yielded[i]) : yielded[i][j] # 10

\* a read ended between the CR and the LF of the first line, whose CR waits
\* in buffer; the body ends with a piece without a line end
C36_Witness ==
    /\ ssePc = "read"
    /\ sseStream = << 97, 13, 10, 97 >>
    /\ buffer = << 97, 13 >>
    /\ sseWire = << 10, 97 >>
    /\ yielded = << >>

----
\* C37: a POST or PUT request without a body, or with a body of no bytes, was
\* written with Content-Length 0, and a request with a body of some bytes
\* with the number of those bytes as its Content-Length, followed by them.
C37_ContentLengthSent ==
    parsePc \notin {"idle", "request"} =>
        /\ (request.method \in {"POST", "PUT"} /\ (~request.hasBody \/ request.byteLength = 0))
              => requestWritten.contentLength = 0
        /\ (request.hasBody /\ request.byteLength > 0)
              => /\ requestWritten.contentLength = request.byteLength
                 /\ requestWritten.bodyLength = request.byteLength


----
\* the data messages of the frames received, put together from their
\* fragments, up to a close frame or a continuation frame that continues
\* nothing
MessagesReceived ==
    LET RECURSIVE run(_, _, _)
        run(i, pending, out) ==
            IF i > Len(received) THEN [messages |-> out, error |-> FALSE]
            ELSE LET f == received[i]
                     whole == [opcode |-> pending[1].opcode,
                               payload |-> Payload(pending[1].payload.len + f.payload.len,
                                                   pending[1].payload.bytes \o f.payload.bytes)]
                 IN  IF f.opcode \in {9, 10} THEN run(i + 1, pending, out)
                     ELSE IF f.opcode = 0
                     THEN IF pending = << >> THEN [messages |-> out, error |-> TRUE]
                          ELSE IF f.fin THEN run(i + 1, << >>, Append(out, whole))
                          ELSE run(i + 1, << [opcode |-> whole.opcode, payload |-> whole.payload] >>, out)
                     ELSE IF ~f.fin
                     THEN run(i + 1, << [opcode |-> f.opcode, payload |-> f.payload] >>, out)
                     ELSE IF f.opcode = 8 THEN [messages |-> out, error |-> FALSE]
                     ELSE run(i + 1, << >>, Append(out, [opcode |-> f.opcode, payload |-> f.payload]))
    IN  run(1, << >>, << >>)

\* C34: the payloads passed to ws.send are those of the data messages
\* received, each once and in order, a fragmented message as the fragments'
\* bytes in order under the opcode of its first frame, whatever ping and pong
\* frames came between the fragments; a continuation frame that continues
\* nothing ends the pump.
C34_ReassembledOnce ==
    /\ delivered = [i \in 1..Len(MessagesReceived.messages) |->
                        MessagesReceived.messages[i].payload]
    /\ \A i \in 1..Len(MessagesReceived.messages) :
          MessagesReceived.messages[i].opcode \in {1, 2}
    /\ MessagesReceived.error => relayPc = "exited"

\* a text message came in two fragments with a ping between them
C34_Witness ==
    /\ received = << Frame(FALSE, 1, Payload(3, << "a" >>)),
                     Frame(TRUE, 9, Payload(2, << "p" >>)),
                     Frame(TRUE, 0, Payload(1, << "c" >>)) >>
    /\ delivered = << Payload(4, << "a", "c" >>) >>
    /\ fragmentedPayload = NoPayload

----
\* C35: the idle timer is set anew by every frame received from the upstream
\* and every frame sent to it: while it is pending, no frame was received or
\* sent since it was set.
C35_ResetByEveryFrame == timeoutId => quiet

----
\* C39: the frames the upstream sent in the read that brought the 101
\* response are in the buffer of the frame reader when the pump asks for its
\* first frame.
C39_NoFrameLost ==
    (relayPc = "read" /\ received = << >>) => readerBuffer = handshakeRest


----
\* C40: when every read, dispatch, write and delay it waits for settles, a
\* session comes to rest: without a stream when the initial response is an
\* error; at DONE with the downstream writer closed; or, only after a write
\* to the client was rejected, with its promise rejected.
C40_Terminates ==
    <>[](\/ pc = "responded"
         \/ pc = "done" /\ writerState = "closed"
         \/ pc = "supervised" /\ writeFailed)

\* the session used all its retries, wrote the 504 event and closed
C40_Witness ==
    /\ pc = "done"
    /\ writerState = "closed"
    /\ exitPath = "retry_limit"
    /\ consecutiveRetryCount = max_consecutive_retries
    /\ ~writeFailed


================================================================
